---------------------------- MODULE Spec2Model ----------------------------
(*************************************************************************)
(* MeshNet discrete-time agent-based simulation (meshnet_model.py) and   *)
(* the harnesses that drive it.                                          *)
(*                                                                       *)
(* Numbers.  The program computes in binary floating point; the model    *)
(* computes in fixed point on 32-bit integers:                           *)
(*   tokens (C, T, B, stake, slashed)      whole tokens                  *)
(*   emission rate E                        milli-tokens per day         *)
(*   price P, yields, costs                 micro-dollars                *)
(*   fee revenue F_daily                    cents                        *)
(*   normalized error / integral            1/10000 (= 1/N_TARGET)       *)
(*   gains, slashing fractions              1/100                        *)
(*   uptime                                 1/1000                       *)
(*   natural logarithms                     micro-nats                   *)
(* Products that would leave 32 bits are split (Mul6, MulDiv).           *)
(*************************************************************************)
EXTENDS Integers, Sequences, FiniteSets, TLC

\* ---------------------------------------------------------------------
\* Fixed-point arithmetic
\* ---------------------------------------------------------------------

Min(a, b) == IF a <= b THEN a ELSE b

Max(a, b) == IF a >= b THEN a ELSE b

Abs(a) == IF a >= 0 THEN a ELSE -a

\* floor(a*b/c) for a, b >= 0, c > 0 with (c-1)*b inside 32 bits
MulDiv(a, b, c) == (a \div c) * b + ((a % c) * b) \div c

\* a*b/10^6 for a, b >= 0, by thousands so that no partial product overflows
Mul6(a, b) ==
    LET a1 == a \div 1000
        a0 == a % 1000
        b1 == b \div 1000
        b0 == b % 1000
    IN  a1 * b1 + (a1 * b0 + a0 * b1 + (a0 * b0) \div 1000) \div 1000

\* Mul6 for a of either sign (b >= 0)
SMul6(a, b) == IF a >= 0 THEN Mul6(a, b) ELSE -Mul6(-a, b)

RECURSIVE Pow2(_)
Pow2(k) == IF k <= 0 THEN 1 ELSE 2 * Pow2(k - 1)

RECURSIVE Log2Floor(_)
Log2Floor(v) == IF v < 2 THEN 0 ELSE 1 + Log2Floor(v \div 2)

LN2 == 693147

\* sum of r^n/n! for n = i..9, given term = r^(i-1)/(i-1)! (all in 10^-6)
RECURSIVE ExpSeries(_, _, _)
ExpSeries(r, term, i) ==
    IF i > 9 THEN 0
    ELSE LET nt == Mul6(term, r) \div i
         IN  nt + ExpSeries(r, nt, i + 1)

\* np.exp: 10^6 * e^(x/10^6), x in micro-nats (result must fit 32 bits)
ExpMicro(x) ==
    LET q  == x \div LN2
        r  == x - q * LN2
        er == 1000000 + ExpSeries(r, 1000000, 1)
    IN  IF q >= 0 THEN er * Pow2(q)
        ELSE IF q < -30 THEN 0
        ELSE er \div Pow2(-q)

\* sum of y^n/n for odd n = i..13, given pw = y^i (all in 10^-6)
RECURSIVE AtanhSeries(_, _, _)
AtanhSeries(y2, pw, i) ==
    IF i > 13 THEN 0
    ELSE pw \div i + AtanhSeries(y2, Mul6(pw, y2), i + 2)

\* np.log of a positive integer v, in micro-nats
LnInt(v) ==
    LET k  == Log2Floor(v)
        m  == IF k >= 19 THEN v \div Pow2(k - 19) ELSE v * Pow2(19 - k)
        a  == m - 524288
        c  == m + 524288
        d1 == (a * 1000) \div c
        r1 == (a * 1000) % c
        y  == d1 * 1000 + (r1 * 1000) \div c
    IN  k * LN2 + 2 * AtanhSeries(Mul6(y, y), y, 1)

\* np.log of a value held in 10^-6 units
LnMicro(v6) == LnInt(v6) - 13815511

\* x ** (num/den) for x held in 10^-6 units
PowMicro(x6, num, den) == ExpMicro((LnMicro(x6) * num) \div den)


\* ---------------------------------------------------------------------
\* Constants (meshnet_model.py)
\* ---------------------------------------------------------------------

TOTAL_SUPPLY == 1000000000

BASE_EMISSION == 109589

PID_MIN == 27397

PID_MAX == 328767

N_TARGET == 10000

\* PROTOCOL_FEE = 0.30, in percent
PROTOCOL_FEE == 30

\* default gains, in 1/100
KP_NORM == 80

KI_NORM == 15

KD_NORM == 20

\* default slashing fractions, in 1/100
SLASH_DOWNTIME == 10

SLASH_FRAUD == 100

\* value of the module global PID_CADENCE when the module is loaded
PID_CADENCE_DEFAULT == 14

SEED == 42

TIMESTEPS == 1825

\* OPPORTUNITY_COST = 5.0 dollars per day, in micro-dollars
OPPORTUNITY_COST == 5000000

\* exit probabilities, per mille
EXIT_PROB_BASE == 8

EXIT_PROB_VETERAN == 3

ENTRY_CAP_ABS == 30

\* OU_KAPPA / 365 = 2.8 / 365, in 10^-6 (calibration file absent: defaults)
OU_KAPPA_DAILY == 7671

\* OU_SIGMA = 0.049, in micro-nats per unit of dW
OU_SIGMA == 49000

\* "None" for an optional argument or scenario field
None == -1

\* the price floor 0.001 dollars, in micro-dollars
P_FLOOR == 1000

\* ---------------------------------------------------------------------
\* Scenario catalog: demand_growth_annual and poach_rate / cost_multiplier
\* in percent, price_drift in micro-nats per day
\* ---------------------------------------------------------------------

SCENARIOS ==
    [ bull |->
        [ demand_growth_annual |-> 30, price_drift |-> 2000,
          shock_month |-> None, shock_type |-> "None",
          poach_rate |-> None, cost_multiplier |-> None ],
      bear |->
        [ demand_growth_annual |-> -15, price_drift |-> -1000,
          shock_month |-> 12, shock_type |-> "demand_contraction",
          poach_rate |-> None, cost_multiplier |-> None ],
      competitor |->
        [ demand_growth_annual |-> -10, price_drift |-> -1000,
          shock_month |-> 18, shock_type |-> "operator_poach",
          poach_rate |-> 25, cost_multiplier |-> None ],
      regulatory |->
        [ demand_growth_annual |-> -5, price_drift |-> -1000,
          shock_month |-> 18, shock_type |-> "cost_increase",
          poach_rate |-> None, cost_multiplier |-> 130 ] ]

ScenarioNames == <<"bull", "bear", "competitor", "regulatory">>

\* (scenario.get("shock_month") or 999) * 30
ShockDay(sc) == (IF sc.shock_month = None THEN 999 ELSE sc.shock_month) * 30

\* ---------------------------------------------------------------------
\* State update functions
\* ---------------------------------------------------------------------

\* (1 + annual_growth) ** (t/365), in 10^-6
GrowthFactor(sc, t) ==
    ExpMicro((t * LnMicro(1000000 + sc.demand_growth_annual * 10000)) \div 365)

\* coverage_factor of compute_demand, in 10^-6, from N
CoverageFactor(n) ==
    LET coverage_ratio == n * 100
    IN  IF coverage_ratio < 300000 THEN coverage_ratio
        ELSE IF coverage_ratio < 800000 THEN PowMicro(coverage_ratio, 13, 10)
        ELSE Min(PowMicro(coverage_ratio, 3, 2), 2000000)

\* the shock multiplier applied to base_demand, in 10^-6
ShockFactor(sc, t, cm) ==
    LET shock_day == ShockDay(sc)
    IN  IF sc.shock_type = "demand_contraction" /\ t > shock_day
        THEN Max(300000, 1000000 - (20000 * (t - shock_day)) \div 30)
        ELSE IF sc.shock_type = "cost_increase" /\ t > shock_day
        THEN 100000000 \div cm
        ELSE IF sc.shock_type = "operator_poach" /\ t > shock_day
        THEN 1000000 - Min(300000, (50000 * (t - shock_day)) \div 30)
        ELSE 1000000

\* compute_demand: daily fee revenue in cents; z is the normal(0, 0.05) draw
\* in standard deviations, cm the cost multiplier in percent
compute_demand(t, n, sc, z, cm) ==
    LET base    == Mul6(CoverageFactor(n), GrowthFactor(sc, t)) \div 10
        shocked == Mul6(base, ShockFactor(sc, t, cm))
        noise   == 1000000 + 50000 * z
    IN  Max(5000, Mul6(shocked, noise))

\* BASE_EMISSION + BASE_EMISSION * x, in milli-tokens, for x in 10^-6.
\* x is first brought into [-2, 4]: outside it the candidate is below 0
\* or above 5 x base and the clamp of pid_emission decides either way.
Candidate(x) ==
    LET xs == Max(-2000000, Min(4000000, x))
        q  == xs \div 1000
        r  == xs % 1000
    IN  BASE_EMISSION * 1000 + BASE_EMISSION * q + (BASE_EMISSION * r) \div 1000

\* OnCadence without the cadence test: the controller runs every day
OnCadenceEveryDay(t, cadence) == TRUE

\* line 188: the controller is evaluated on day t
OnCadence(t, cadence) == t % cadence = 0

\* AntiWindup without the clamp
AntiWindupOff(x) == x

\* line 199: anti-windup, max(-5.0, min(5.0, integral_norm))
AntiWindup(x) == Max(-50000, Min(50000, x))

\* ClampEmission with the ceiling only
ClampEmissionCeilingOnly(e) == Min(PID_MAX * 1000, e)

\* line 210: max(PID_MIN, min(PID_MAX, new_E)), in milli-tokens
ClampEmission(e) == Max(PID_MIN * 1000, Min(PID_MAX * 1000, e))

\* pid_emission: updated = FALSE stands for the (None, integral, prev) return
pid_emission(n, integral_norm, prev_error_norm, t, kp, ki, kd, cadence) ==
    IF ~OnCadence(t, cadence)
    THEN [updated |-> FALSE, E |-> None,
          integral |-> integral_norm, prev_error |-> prev_error_norm]
    ELSE LET kp1 == IF kp # None THEN kp ELSE KP_NORM
             ki1 == IF ki # None THEN ki ELSE KI_NORM
             kd1 == IF kd # None THEN kd ELSE KD_NORM
             error_norm == N_TARGET - n
             integral1  == AntiWindup(integral_norm + error_norm)
             derivative_norm == error_norm - prev_error_norm
             new_E == Candidate(kp1 * error_norm + ki1 * integral1
                                + kd1 * derivative_norm)
         IN  [updated |-> TRUE, E |-> ClampEmission(new_E),
              integral |-> integral1, prev_error |-> error_norm]

\* static_emission tapering 5% per day instead of per year
static_emission_per_day(t) ==
    Mul6(BASE_EMISSION * 1000, ExpMicro(t * LnMicro(950000)))

\* static_emission: BASE_EMISSION * 0.95 ** (t/365), in milli-tokens
static_emission(t) ==
    Mul6(BASE_EMISSION * 1000, ExpMicro((t * LnMicro(950000)) \div 365))

\* burn_tokens: F_daily * PROTOCOL_FEE / max(P, 0.001), in whole tokens
burn_tokens(f, p) == MulDiv(f * PROTOCOL_FEE, 100, Max(p, P_FLOOR))

\* log of the clamped fundamental of update_price, in micro-nats:
\* log(max(0.01, min(10.0, F_daily * 365 / max(C, 1) * 1000)))
LogFundamental(f, c) ==
    LET raw == LnInt(f) - LnInt(100) + LnInt(365000) - LnInt(Max(c, 1))
    IN  Max(LnMicro(10000), Min(LnMicro(10000000), raw))

\* update_price: dW in standard deviations, drift in micro-nats
update_price(p, f, c, drift, dW) ==
    LET log_P == LnMicro(Max(p, P_FLOOR))
        log_F == Max(LogFundamental(f, c), LnMicro(1000))
        new_log_P == log_P + SMul6(log_F - log_P, OU_KAPPA_DAILY)
                     + OU_SIGMA * dW + drift
    IN  Max(P_FLOOR, ExpMicro(new_log_P))

\* SupplyAccounting without the floor of C at 0
SupplyAccountingNoFloor(c, tr, e, b, slashed, treas_subsidy) ==
    [C |-> Min(TOTAL_SUPPLY, c + e \div 1000 - b - slashed),
     T |-> Max(0, tr + slashed - treas_subsidy)]

\* PSUB 8: supply accounting; E in milli-tokens, the rest in whole tokens
SupplyAccounting(c, tr, e, b, slashed, treas_subsidy) ==
    [C |-> Max(0, Min(TOTAL_SUPPLY, c + e \div 1000 - b - slashed)),
     T |-> Max(0, tr + slashed - treas_subsidy)]


\* ---------------------------------------------------------------------
\* Operator population.
\*
\* The program keeps one record per operator in the list `agents`.  The
\* model keeps the records of the operators in DOMAIN agents (a set of
\* list indices) one by one, exactly as the list does; the other
\* operators of the list are kept per profile in `bulk`: how many of the
\* profile are active and the stake they hold together.  The untracked
\* operators are those whose normal() draws are all zero, so their uptime
\* stays at the value they were created with.  nAgents is len(agents).
\* The field price_sensitivity, which no step reads, is left out.
\* ---------------------------------------------------------------------

Types == {"high_commitment", "casual", "mercenary"}

\* exit_threshold in 1/10, fraud_prob in percent, uptime in 1/1000
Archetype(atype) ==
    IF atype = "high_commitment"
    THEN [exit_threshold |-> 3, uptime_base |-> 995, fraud_prob |-> 0]
    ELSE IF atype = "casual"
    THEN [exit_threshold |-> 8, uptime_base |-> 950, fraud_prob |-> 0]
    ELSE [exit_threshold |-> 12, uptime_base |-> 850, fraud_prob |-> 15]

\* the archetype at position i of the list `types` of create_operators(n)
TypeAt(i, n) ==
    IF i < (n * 40) \div 100 THEN "high_commitment"
    ELSE IF i < (n * 40) \div 100 + (n * 30) \div 100 THEN "casual"
    ELSE IF i < (n * 40) \div 100 + (n * 30) \div 100 + (n * 15) \div 100
    THEN "mercenary"
    ELSE "casual"

\* one operator of create_operators: z is the normal(0, 0.01) draw in
\* standard deviations, k the integers(0, 20000) draw
NewOperator(i, n, z, k) ==
    LET atype == TypeAt(i, n)
        arch  == Archetype(atype)
    IN  [id |-> i, type |-> atype, exit_threshold |-> arch.exit_threshold,
         uptime |-> Min(1000, arch.uptime_base + 10 * z),
         fraud_prob |-> arch.fraud_prob, stake |-> 10000 + k,
         reputation |-> 0, active |-> TRUE, seasons_active |-> 0]

Profile(atype, thr, fp, up) ==
    [type |-> atype, exit_threshold |-> thr, fraud_prob |-> fp, uptime |-> up]

ProfileOf(a) == Profile(a.type, a.exit_threshold, a.fraud_prob, a.uptime)

ArchProfile(atype) ==
    Profile(atype, Archetype(atype).exit_threshold,
            Archetype(atype).fraud_prob, Archetype(atype).uptime_base)

\* profiles an untracked operator can have: the three archetypes of
\* create_operators and whatever the independent draws of an entry give
BulkProfiles ==
    {ArchProfile(ty) : ty \in Types}
    \cup [type : Types, exit_threshold : {3, 8, 12}, fraud_prob : {0, 15},
          uptime : {950}]

RECURSIVE SumOver(_, _)
SumOver(f, S) ==
    IF S = {} THEN 0
    ELSE LET x == CHOOSE y \in S : TRUE
         IN  f[x] + SumOver(f, S \ {x})

BulkActive(bk) == SumOver([p \in BulkProfiles |-> bk[p].n], BulkProfiles)

TrackedActive(ag) == Cardinality({i \in DOMAIN ag : ag[i].active})

\* sum(1 for a in agents if a["active"])
ActiveCount(ag, bk) == TrackedActive(ag) + BulkActive(bk)

\* create_operators(n, rng): the tracked operators drawn one by one, the
\* rest with zero normal draws and the stake draw k0
create_operators(n, tracked, zs, ks, k0) ==
    LET ag == [i \in tracked |-> NewOperator(i, n, zs[i], ks[i])]
        \* entries of the list `types` with archetype ty
        of(ty) == IF ty = "high_commitment" THEN (n * 40) \div 100
                  ELSE IF ty = "mercenary" THEN (n * 15) \div 100
                  ELSE n - (n * 40) \div 100 - (n * 15) \div 100
        cnt(p) == IF \E ty \in Types : ArchProfile(ty) = p
                  THEN LET ty == CHOOSE x \in Types : ArchProfile(x) = p
                       IN  of(ty) - Cardinality({i \in tracked :
                                                  TypeAt(i, n) = ty})
                  ELSE 0
    IN  [agents |-> ag,
         bulk |-> [p \in BulkProfiles |->
                     [n |-> cnt(p), stake |-> cnt(p) * (10000 + k0)]]]

\* (per_op_emission + per_op_fee) in milli-units: E in milli-tokens,
\* F_daily in cents, (1 - PROTOCOL_FEE) of it shared out
PerOpTokens(e, f, active_count) ==
    e \div Max(active_count, 1)
    + ((f * (100 - PROTOCOL_FEE)) \div 10) \div Max(active_count, 1)

\* (per_op_emission + per_op_fee) * P in micro-dollars; from 2000 dollars
\* on the value is held at 2 * 10^9 (every threshold is below 11 dollars)
YieldUsd(pm, p) ==
    LET a1 == pm \div 1000
        a0 == pm % 1000
        b1 == p \div 1000
        b0 == p % 1000
    IN  IF a1 > 2000000 \div Max(b1, 1) THEN 2000000000
        ELSE Min(2000000000,
                 a1 * b1 * 1000 + a1 * b0 + a0 * b1 + (a0 * b0) \div 1000)

\* op_cost = (3.0 + normal(0, 0.5)) * cost_mult, in micro-dollars
OpCost(z, cm) == ((3000000 + 500000 * z) * cm) \div 100

\* SlashAmount rounding the product up instead of down
SlashAmountRoundedUp(stake, frac) == (stake * frac + 99) \div 100

\* int(stake * fraction), fraction in 1/100
SlashAmount(stake, frac) == (stake * frac) \div 100

\* OperatorDay with the fraud slash taken on the stake of the morning
\* instead of the stake left after the downtime slash
OperatorDayFraudOnFullStake(a, jit, fraudU, catchU, exitU, pe, dy, sd, sf) ==
    LET uptime1 == Min(1000, Max(500, a.uptime + jit))
        slash1  == IF uptime1 < 900 THEN (a.stake * sd) \div 100 ELSE 0
        fraud   == a.fraud_prob > 0 /\ fraudU < a.fraud_prob * 10
        caught  == fraud /\ catchU < 970
        slash2  == IF caught THEN (a.stake * sf) \div 100 ELSE 0
        stake2  == a.stake - slash1 - slash2
        exit_prob == IF a.seasons_active >= 2 THEN EXIT_PROB_VETERAN
                     ELSE EXIT_PROB_BASE
        exits   == /\ dy < (a.exit_threshold * OPPORTUNITY_COST) \div 10
                   /\ exitU < exit_prob
    IN  [a |-> [a EXCEPT !.uptime = uptime1, !.stake = stake2,
                         !.active = IF exits \/ stake2 <= 0 THEN FALSE
                                    ELSE a.active],
         slashed |-> slash1 + slash2,
         fraud_captured |-> IF fraud /\ ~caught THEN pe \div 10000 ELSE 0]

\* OperatorDay whose exit draw is against EXIT_PROB_BASE whatever the
\* seasons of the operator
OperatorDayBaseExitProb(a, jit, fraudU, catchU, exitU, pe, dy, sd, sf) ==
    LET uptime1 == Min(1000, Max(500, a.uptime + jit))
        slash1  == IF uptime1 < 900 THEN SlashAmount(a.stake, sd) ELSE 0
        stake1  == a.stake - slash1
        fraud   == a.fraud_prob > 0 /\ fraudU < a.fraud_prob * 10
        caught  == fraud /\ catchU < 970
        slash2  == IF caught THEN SlashAmount(stake1, sf) ELSE 0
        stake2  == stake1 - slash2
        exits   == /\ dy < (a.exit_threshold * OPPORTUNITY_COST) \div 10
                   /\ exitU < EXIT_PROB_BASE
    IN  [a |-> [a EXCEPT !.uptime = uptime1, !.stake = stake2,
                         !.active = IF exits \/ stake2 <= 0 THEN FALSE
                                    ELSE a.active],
         slashed |-> slash1 + slash2,
         fraud_captured |-> IF fraud /\ ~caught THEN pe \div 10000 ELSE 0]

\* OperatorDay without the stake floor of lines 277-278
OperatorDayNoStakeFloor(a, jit, fraudU, catchU, exitU, pe, dy, sd, sf) ==
    LET uptime1 == Min(1000, Max(500, a.uptime + jit))
        slash1  == IF uptime1 < 900 THEN SlashAmount(a.stake, sd) ELSE 0
        stake1  == a.stake - slash1
        fraud   == a.fraud_prob > 0 /\ fraudU < a.fraud_prob * 10
        caught  == fraud /\ catchU < 970
        slash2  == IF caught THEN SlashAmount(stake1, sf) ELSE 0
        exit_prob == IF a.seasons_active >= 2 THEN EXIT_PROB_VETERAN
                     ELSE EXIT_PROB_BASE
        exits   == /\ dy < (a.exit_threshold * OPPORTUNITY_COST) \div 10
                   /\ exitU < exit_prob
    IN  [a |-> [a EXCEPT !.uptime = uptime1, !.stake = stake1 - slash2,
                         !.active = IF exits THEN FALSE ELSE a.active],
         slashed |-> slash1 + slash2,
         fraud_captured |-> IF fraud /\ ~caught THEN pe \div 10000 ELSE 0]

\* the body of the loop "for a in active" of update_operators for one
\* operator; jit is the normal(0, 0.005) draw in 1/1000, fraudU, catchU and
\* exitU are random() draws in per mille, pe is per_op_emission in
\* milli-tokens, dy the daily yield in micro-dollars
OperatorDay(a, jit, fraudU, catchU, exitU, pe, dy, sd, sf) ==
    LET uptime1 == Min(1000, Max(500, a.uptime + jit))
        down    == uptime1 < 900
        slash1  == IF down THEN SlashAmount(a.stake, sd) ELSE 0
        stake1  == a.stake - slash1
        fraud   == a.fraud_prob > 0 /\ fraudU < a.fraud_prob * 10
        caught  == fraud /\ catchU < 970
        slash2  == IF caught THEN SlashAmount(stake1, sf) ELSE 0
        stake2  == stake1 - slash2
        exit_prob == IF a.seasons_active >= 2 THEN EXIT_PROB_VETERAN
                     ELSE EXIT_PROB_BASE
        exits   == /\ dy < (a.exit_threshold * OPPORTUNITY_COST) \div 10
                   /\ exitU < exit_prob
        active1 == IF exits THEN FALSE ELSE a.active
        active2 == IF stake2 <= 0 THEN FALSE ELSE active1
    IN  [a |-> [a EXCEPT !.uptime = uptime1, !.stake = stake2,
                         !.active = active2],
         slashed |-> slash1 + slash2,
         fraud_captured |-> IF fraud /\ ~caught THEN pe \div 10000 ELSE 0]

\* number of c operators an event of the given rate (per mille) falls on;
\* h in 0..999 does the rounding
Share(c, pm, h) == Min(c, (c * pm + h) \div 1000)

\* the same loop for the untracked operators of one profile: b = [n, stake],
\* caughtPm / uncaughtPm / exitPm the share of them whose draws come out
\* as caught fraud / uncaught fraud / exit
BulkDay(p, b, caughtPm, uncaughtPm, exitPm, h, pe, dy, sd, sf) ==
    LET c       == b.n
        avg0    == b.stake \div Max(c, 1)
        nDown   == IF p.uptime < 900 THEN c ELSE 0
        slashD  == nDown * SlashAmount(avg0, sd)
        avg1    == (b.stake - slashD) \div Max(c, 1)
        nCaught == IF p.fraud_prob > 0 THEN Share(c, caughtPm, h) ELSE 0
        nFree   == IF p.fraud_prob > 0
                   THEN Min(c - nCaught, Share(c, uncaughtPm, h)) ELSE 0
        slashF  == nCaught * SlashAmount(avg1, sf)
        \* stake floor: a caught operator of the profile is left with
        \* avg1 - int(avg1 * sf); a down one with avg0 - int(avg0 * sd)
        floorF  == IF avg1 - SlashAmount(avg1, sf) <= 0 THEN nCaught ELSE 0
        floorD  == IF avg0 - SlashAmount(avg0, sd) <= 0 THEN c ELSE 0
        nFloor  == Max(floorF, floorD)
        left    == c - nFloor
        stakeL  == b.stake - slashD - slashF
        nExit   == IF dy < (p.exit_threshold * OPPORTUNITY_COST) \div 10
                   THEN Share(left, exitPm, h) ELSE 0
        n2      == left - nExit
        stake2  == IF left = 0 THEN 0
                   ELSE stakeL - nExit * (stakeL \div left)
    IN  [b |-> [n |-> n2, stake |-> stake2],
         slashed |-> slashD + slashF,
         fraud_captured |-> nFree * (pe \div 10000)]

\* TreasurySubsidy with the reserve floor at 1% of TOTAL_SUPPLY
TreasurySubsidyReserveOnePercent(yield_usd, p, active_count, tr) ==
    IF yield_usd < OPPORTUNITY_COST \div 2 /\ tr > TOTAL_SUPPLY \div 100
    THEN LET total_subsidy ==
                 MulDiv(active_count
                        * ((OPPORTUNITY_COST \div 2 - yield_usd) \div 100),
                        100, Max(p, P_FLOOR))
         IN  IF total_subsidy < tr \div 100 THEN total_subsidy ELSE 0
    ELSE 0

\* TreasurySubsidy without the reserve floor of 2% of TOTAL_SUPPLY
TreasurySubsidyNoReserve(yield_usd, p, active_count, tr) ==
    IF yield_usd < OPPORTUNITY_COST \div 2
    THEN LET total_subsidy ==
                 MulDiv(active_count
                        * ((OPPORTUNITY_COST \div 2 - yield_usd) \div 100),
                        100, Max(p, P_FLOOR))
         IN  IF total_subsidy < tr \div 100 THEN total_subsidy ELSE 0
    ELSE 0

\* treasury yield stabilization (1E): the subsidy in whole tokens
TreasurySubsidy(yield_usd, p, active_count, tr) ==
    IF yield_usd < OPPORTUNITY_COST \div 2 /\ tr > (TOTAL_SUPPLY \div 100) * 2
    THEN LET deficit_per_op == OPPORTUNITY_COST \div 2 - yield_usd
             \* deficit_per_op / max(P, 0.001) * active_count
             total_subsidy ==
                 MulDiv(active_count * (deficit_per_op \div 100), 100,
                        Max(p, P_FLOOR))
         IN  IF total_subsidy < tr \div 100 THEN total_subsidy ELSE 0
    ELSE 0

\* EntryFactor whose taper starts at 1.2 * N_TARGET instead of N_TARGET
EntryFactorLateTaper(active_count) ==
    IF active_count > (N_TARGET * 12) \div 10
    THEN Max(0, (N_TARGET * 2) \div 10
                - (active_count - (N_TARGET * 12) \div 10))
    ELSE (N_TARGET * 2) \div 10

\* EntryFactor without the taper above N_TARGET
EntryFactorNoTaper(active_count) == (N_TARGET * 2) \div 10

\* entry_factor * 2000: 1.0 up to N_TARGET, falling to 0 at 1.2 * N_TARGET
EntryFactor(active_count) ==
    IF active_count > N_TARGET
    THEN Max(0, (N_TARGET * 2) \div 10 - (active_count - N_TARGET))
    ELSE (N_TARGET * 2) \div 10

\* BaseNew rounding 3% of the active count up instead of down
BaseNewRoundedUp(active_count) ==
    Min((active_count * 3 + 99) \div 100, ENTRY_CAP_ABS)

\* BaseNew without the cap ENTRY_CAP_ABS
BaseNewNoCap(active_count) == (active_count * 3) \div 100

\* min(int(active_count * 0.03), ENTRY_CAP_ABS)
BaseNew(active_count) == Min((active_count * 3) \div 100, ENTRY_CAP_ABS)

\* max(0, int(base_new * entry_factor)).  At 11600 and 11800 the binary
\* value of 1.0 - 0.8 and of 1.0 - 0.9 lies just below 0.2 and 0.1, and
\* int() of the product is one less than the exact quotient.
NewCount(active_count) ==
    LET exact == (BaseNew(active_count) * EntryFactor(active_count))
                 \div ((N_TARGET * 2) \div 10)
    IN  IF active_count \in {11600, 11800} THEN Max(0, exact - 1)
        ELSE Max(0, exact)

\* NewEntrant numbering from 1: "id": len(agents) + 1
NewEntrantIdFromOne(len, atype, thr, fp, z, k) ==
    [id |-> len + 1, type |-> atype, exit_threshold |-> thr,
     uptime |-> 950 + 20 * z, fraud_prob |-> fp, stake |-> 10000 + k,
     reputation |-> 0, active |-> TRUE, seasons_active |-> 0]

\* one appended operator: "id": len(agents), type / exit_threshold /
\* fraud_prob drawn independently, uptime 0.95 + normal(0, 0.02)
NewEntrant(len, atype, thr, fp, z, k) ==
    [id |-> len, type |-> atype, exit_threshold |-> thr,
     uptime |-> 950 + 20 * z, fraud_prob |-> fp, stake |-> 10000 + k,
     reputation |-> 0, active |-> TRUE, seasons_active |-> 0]


\* ---------------------------------------------------------------------
\* Bounds of the model
\* ---------------------------------------------------------------------

\* most operators whose records are kept one by one
MaxTracked == 4

\* days explored by a run whose generator is left unconstrained
MaxDay == 2

\* N of run_simulation: the population create_operators is called with
N_INITIAL == 2000

\* list indices of the operators of create_operators that are tracked:
\* the first high_commitment, casual and mercenary operator
TrackedInitial == {0, 800, 1400}

\* ---------------------------------------------------------------------
\* update_operators
\* ---------------------------------------------------------------------

\* untracked list positions below i that can hold an operator that is
\* not high_commitment
NonHCAhead(i, tracked) ==
    Cardinality({j \in 0..(Min(i, N_INITIAL) - 1) :
                    j \notin tracked /\ TypeAt(j, N_INITIAL) # "high_commitment"})
    + Max(0, i - N_INITIAL)

NonHCProfiles == {p \in BulkProfiles : p.type # "high_commitment"}

\* the loop "for a in agents" of the poach shock over the tracked
\* operators in list order: ids is the set still to visit, tp the number
\* of tracked operators poached so far, ahead(i) the number of untracked
\* operators poached before position i
RECURSIVE PoachTracked(_, _, _, _, _)
PoachTracked(ag, ids, tp, poach_n, ahead) ==
    IF ids = {} THEN [agents |-> ag, tp |-> tp]
    ELSE LET i   == CHOOSE x \in ids : \A y \in ids : x <= y
             hit == /\ ag[i].active
                    /\ ag[i].type # "high_commitment"
                    /\ ahead[i] + tp < poach_n
         IN  IF hit
             THEN PoachTracked([ag EXCEPT ![i].active = FALSE],
                               ids \ {i}, tp + 1, poach_n, ahead)
             ELSE PoachTracked(ag, ids \ {i}, tp, poach_n, ahead)

\* the untracked operators poached: k of them, profile by profile
RECURSIVE PoachBulk(_, _, _)
PoachBulk(bk, ps, k) ==
    IF ps = {} \/ k = 0 THEN bk
    ELSE LET p    == CHOOSE x \in ps : TRUE
             take == Min(k, bk[p].n)
             rest == bk[p].n - take
             st   == IF rest = 0 THEN 0
                     ELSE bk[p].stake - take * (bk[p].stake \div bk[p].n)
         IN  PoachBulk([bk EXCEPT ![p] = [n |-> rest, stake |-> st]],
                       ps \ {p}, k - take)

\* lines 247-278, the loop "for a in active": what the day does to every
\* tracked operator (od) and to the untracked ones of every profile (bd)
ActiveLoop(ag, bk, d, pe, dy, sd, sf) ==
    [od |-> [i \in DOMAIN ag |->
               IF ag[i].active
               THEN OperatorDay(ag[i], d.jit[i], d.fraudU[i], d.catchU[i],
                                d.exitU[i], pe, dy, sd, sf)
               ELSE [a |-> ag[i], slashed |-> 0, fraud_captured |-> 0]],
     bd |-> [q \in BulkProfiles |->
               BulkDay(q, bk[q], d.caughtPm, d.uncaughtPm, d.exitPm, d.h,
                       pe, dy, sd, sf)]]

\* the list and the totals total_slashed, fraud_captured after the loop
LoopTotals(lp) ==
    [agents |-> [i \in DOMAIN lp.od |-> lp.od[i].a],
     bulk |-> [q \in BulkProfiles |-> lp.bd[q].b],
     slashed |->
         SumOver([i \in DOMAIN lp.od |-> lp.od[i].slashed], DOMAIN lp.od)
         + SumOver([q \in BulkProfiles |-> lp.bd[q].slashed], BulkProfiles),
     fraud_captured |->
         SumOver([i \in DOMAIN lp.od |-> lp.od[i].fraud_captured], DOMAIN lp.od)
         + SumOver([q \in BulkProfiles |-> lp.bd[q].fraud_captured],
                   BulkProfiles)]

\* lines 289-313: new_count operators appended to the list of length len;
\* the first of them is tracked while fewer than MaxTracked are
Entry(ag, bk, len, new_count, d) ==
    LET track == new_count > 0 /\ Cardinality(DOMAIN ag) < MaxTracked
        nb    == IF track THEN new_count - 1 ELSE new_count
        bp    == Profile(d.bType, d.bThr, d.bFraud, 950)
    IN  [agents |-> IF track
                    THEN [i \in DOMAIN ag \cup {len} |->
                            IF i = len
                            THEN NewEntrant(len, d.eType, d.eThr, d.eFraud,
                                            d.eZ, d.eStake)
                            ELSE ag[i]]
                    ELSE ag,
         bulk |-> [bk EXCEPT ![bp] =
                     [n |-> @.n + nb,
                      stake |-> @.stake + nb * (10000 + d.bStake)]]]

\* Poach taking operators of every type
PoachAnyType(ag, bk, poach_n, d) ==
    LET mb == BulkActive(bk)
    IN  [agents |-> ag,
         bulk |-> PoachBulk(bk, BulkProfiles, Min(mb, poach_n)),
         poached |-> Min(mb, poach_n)]

\* lines 315-323: the first poach_n active operators of the list that are
\* not high_commitment are deactivated
Poach(ag, bk, poach_n, d) ==
    LET mb == SumOver([q \in BulkProfiles |-> bk[q].n], NonHCProfiles)
        ahead == [i \in DOMAIN ag |->
                    IF d.poachBulkFirst
                    THEN Min(mb, NonHCAhead(i, DOMAIN ag)) ELSE 0]
        pt == PoachTracked(ag, DOMAIN ag, 0, poach_n, ahead)
    IN  [agents |-> pt.agents,
         bulk |-> PoachBulk(bk, NonHCProfiles, Min(mb, poach_n - pt.tp)),
         poached |-> pt.tp + Min(mb, poach_n - pt.tp)]

\* the locals of update_operators when it returns at line 240: nothing
\* after line 237 has been assigned
NoLifecycle ==
    [n_active |-> 0, per_op_yield_usd |-> None, slashed |-> 0,
     fraud_captured |-> 0, treasury_subsidy |-> 0, active_count |-> None,
     base_new |-> None, new_count |-> None, poach_n |-> None,
     poached |-> None]

\* lines 315-325: the poach shock on the population en after entry; loc
\* holds the locals assigned up to line 313
AfterEntry(en, len, loc, sc, t, d) ==
    LET poach == sc.shock_type = "operator_poach" /\ t = ShockDay(sc)
        poach_n == (loc.active_count
                    * (IF sc.poach_rate # None THEN sc.poach_rate ELSE 25))
                   \div 100
        pr == IF poach THEN Poach(en.agents, en.bulk, poach_n, d)
              ELSE [agents |-> en.agents, bulk |-> en.bulk, poached |-> None]
    IN  [agents |-> pr.agents, len |-> len, bulk |-> pr.bulk,
         slashed |-> loc.slashed, fraud_captured |-> loc.fraud_captured,
         treasury_subsidy |-> loc.treasury_subsidy,
         locals |-> [loc EXCEPT !.poach_n = IF poach THEN poach_n ELSE None,
                                !.poached = pr.poached]]

\* lines 280-313: treasury subsidy and entry, given the totals r of the loop
AfterLoop(r, len, per_op_yield_usd, p, active_count, tr, sc, t, d) ==
    LET active_count2 == ActiveCount(r.agents, r.bulk)
        entry == per_op_yield_usd > 2 * OPPORTUNITY_COST
        new_count == IF entry THEN NewCount(active_count2) ELSE 0
    IN  AfterEntry(Entry(r.agents, r.bulk, len, new_count, d), len + new_count,
                   [n_active |-> active_count,
                    per_op_yield_usd |-> per_op_yield_usd,
                    slashed |-> r.slashed,
                    fraud_captured |-> r.fraud_captured,
                    treasury_subsidy |->
                        TreasurySubsidy(per_op_yield_usd, p, active_count, tr),
                    active_count |-> active_count2,
                    base_new |-> IF entry THEN BaseNew(active_count2)
                                 ELSE None,
                    new_count |-> IF entry THEN new_count ELSE None,
                    poach_n |-> None, poached |-> None],
                   sc, t, d)

\* update_operators(agents, E, F_daily, N, P, scenario, t, rng, T, cost_mult,
\* slash_downtime, slash_fraud); d holds the draws of the day, len is
\* len(agents)
update_operators(ag, len, bk, e, f, n, p, sc, t, d, tr, cm, slash_downtime, slash_fraud) ==
    LET sd == IF slash_downtime # None THEN slash_downtime ELSE SLASH_DOWNTIME
        sf == IF slash_fraud # None THEN slash_fraud ELSE SLASH_FRAUD
        active_count == ActiveCount(ag, bk)
        pe == e \div Max(active_count, 1)
        per_op_yield_usd == YieldUsd(PerOpTokens(e, f, active_count), p)
        daily_yield == per_op_yield_usd - OpCost(d.zCost, cm)
    IN  IF active_count = 0
        THEN [agents |-> ag, len |-> len, bulk |-> bk, slashed |-> 0,
              fraud_captured |-> 0, treasury_subsidy |-> 0,
              locals |-> NoLifecycle]
        ELSE AfterLoop(LoopTotals(ActiveLoop(ag, bk, d, pe, daily_yield,
                                             sd, sf)),
                       len, per_op_yield_usd, p, active_count, tr, sc, t, d)

\* update_reputation without the ceiling of 5.0
update_reputation_unclamped(ag, bk, t) ==
    IF t % 90 # 0 \/ t = 0 THEN ag
    ELSE IF ActiveCount(ag, bk) = 0 THEN ag
    ELSE [i \in DOMAIN ag |->
            IF ag[i].active
            THEN [ag[i] EXCEPT
                    !.seasons_active = @ + 1,
                    !.reputation =
                        ((@ + (IF ag[i].uptime > 990 THEN 1000000 ELSE 0))
                         * 85) \div 100]
            ELSE ag[i]]

\* update_reputation(agents, t); reputation in 10^-6.  The season count and
\* the reputation of the untracked operators are not kept.
update_reputation(ag, bk, t) ==
    IF t % 90 # 0 \/ t = 0 THEN ag
    ELSE IF ActiveCount(ag, bk) = 0 THEN ag
    ELSE [i \in DOMAIN ag |->
            IF ag[i].active
            THEN [ag[i] EXCEPT
                    !.seasons_active = @ + 1,
                    !.reputation =
                        Min(5000000,
                            ((@ + (IF ag[i].uptime > 990 THEN 1000000 ELSE 0))
                             * 85) \div 100)]
            ELSE ag[i]]


\* ---------------------------------------------------------------------
\* The random generator.  rng = np.random.default_rng(seed) is a fixed
\* sequence of draws per seed.  The model takes the draws of one day
\* together, as a record:
\*   zDemand, zCost, dW      normal draws of compute_demand, of op_cost and
\*                           of update_price, in standard deviations
\*   jit, fraudU, catchU, exitU   per tracked operator: uptime jitter in
\*                           1/1000 and the three random() draws, per mille
\*   caughtPm, uncaughtPm, exitPm, h   the untracked operators: share (per
\*                           mille) whose draws come out as caught fraud,
\*                           uncaught fraud and exit; h rounds the share
\*   eType .. eStake         the draws of the first appended operator
\*   bType .. bStake         the draws of the other appended operators
\*   poachBulkFirst          whether the untracked operators that are not
\*                           high_commitment precede the tracked ones
\* Seed FREE_SEED stands for a generator left unconstrained: each day any
\* of the records of DayPatterns.  Every other seed fixes one record per day.
\* ---------------------------------------------------------------------

FREE_SEED == 0

\* a seed whose price draws rise for BoomDays days and fall afterwards,
\* and whose operators never draw an exit or a fraud
BOOM_BUST_SEED == 7

BoomDays == 420

Quiet(ids) ==
    [zDemand |-> 0, zCost |-> 0, dW |-> 0,
     jit |-> [i \in ids |-> 0], fraudU |-> [i \in ids |-> 999],
     catchU |-> [i \in ids |-> 999], exitU |-> [i \in ids |-> 999],
     caughtPm |-> 0, uncaughtPm |-> 0, exitPm |-> 0, h |-> 0,
     eType |-> "casual", eThr |-> 8, eFraud |-> 0, eZ |-> 0, eStake |-> 10000,
     bType |-> "casual", bThr |-> 8, bFraud |-> 0, bStake |-> 10000,
     poachBulkFirst |-> FALSE]

DayPatterns(ids) ==
    LET q == Quiet(ids)
    IN  { q,
          \* price falls / rises by three standard deviations
          [q EXCEPT !.dW = -3],
          [q EXCEPT !.dW = 3, !.zDemand = 2],
          \* costly day on which every operator that may exit does
          [q EXCEPT !.zCost = 4, !.exitU = [i \in ids |-> 0], !.exitPm = 1000],
          \* every fraud draw succeeds and is caught
          [q EXCEPT !.fraudU = [i \in ids |-> 0], !.catchU = [i \in ids |-> 0],
                    !.caughtPm = 1000],
          \* every fraud draw succeeds and goes uncaught
          [q EXCEPT !.fraudU = [i \in ids |-> 0], !.uncaughtPm = 1000],
          \* uptime falls; the appended operators mix the archetypes
          [q EXCEPT !.jit = [i \in ids |-> -30],
                    !.eType = "high_commitment", !.eThr = 12, !.eFraud = 15,
                    !.eZ = -3, !.eStake = 0,
                    !.bType = "mercenary", !.bThr = 3, !.bFraud = 15] }

\* a number in 0..999 per (seed, day, slot)
Hash(seed, t, slot) == (seed * 7919 + t * 104729 + slot * 1299709) % 1000

\* a normal draw in standard deviations from a uniform one in per mille
ZOf(u) == IF u < 23 THEN -2 ELSE IF u < 159 THEN -1 ELSE IF u < 841 THEN 0
          ELSE IF u < 977 THEN 1 ELSE 2

TypeOf(u) == IF u < 500 THEN "high_commitment"
             ELSE IF u < 850 THEN "casual" ELSE "mercenary"

ThrOf(u) == IF u < 500 THEN 3 ELSE IF u < 850 THEN 8 ELSE 12

Slot(i) == 20 + 4 * (i % 100)

HashedDay(seed, t, ids) ==
    [zDemand |-> ZOf(Hash(seed, t, 1)), zCost |-> ZOf(Hash(seed, t, 2)),
     dW |-> ZOf(Hash(seed, t, 3)),
     jit |-> [i \in ids |-> 5 * ZOf(Hash(seed, t, Slot(i)))],
     fraudU |-> [i \in ids |-> Hash(seed, t, Slot(i) + 1)],
     catchU |-> [i \in ids |-> Hash(seed, t, Slot(i) + 2)],
     exitU |-> [i \in ids |-> Hash(seed, t, Slot(i) + 3)],
     caughtPm |-> 145, uncaughtPm |-> 5, exitPm |-> EXIT_PROB_BASE,
     h |-> Hash(seed, t, 4),
     eType |-> TypeOf(Hash(seed, t, 5)), eThr |-> ThrOf(Hash(seed, t, 6)),
     eFraud |-> IF Hash(seed, t, 7) < 150 THEN 15 ELSE 0,
     eZ |-> ZOf(Hash(seed, t, 8)), eStake |-> 20 * Hash(seed, t, 9),
     bType |-> TypeOf(Hash(seed, t, 10)), bThr |-> ThrOf(Hash(seed, t, 11)),
     bFraud |-> IF Hash(seed, t, 12) < 150 THEN 15 ELSE 0, bStake |-> 10000,
     poachBulkFirst |-> Hash(seed, t, 13) < 500]

BoomBustDay(t, ids) ==
    [Quiet(ids) EXCEPT !.dW = IF t < BoomDays THEN 1 ELSE -3]

\* a seed on whose days costs are high and every exit draw succeeds
EXODUS_SEED == 9

ExodusDay(ids) ==
    [Quiet(ids) EXCEPT !.zCost = 4, !.exitU = [i \in ids |-> 0],
                       !.exitPm = 1000]

DayDraws(seed, t, ids) ==
    IF seed = FREE_SEED THEN DayPatterns(ids)
    ELSE IF seed = BOOM_BUST_SEED THEN {BoomBustDay(t, ids)}
    ELSE IF seed = EXODUS_SEED THEN {ExodusDay(ids)}
    ELSE {HashedDay(seed, t, ids)}

\* the draws of create_operators: zs[i] the normal(0, 0.01) draw of
\* tracked operator i, ks[i] its integers(0, 20000) draw, k0 the
\* integers draw of the untracked ones
InitDraws(seed, ids) ==
    IF seed = FREE_SEED
    THEN { [zs |-> [i \in ids |-> 0], ks |-> [i \in ids |-> 0], k0 |-> 10000],
           [zs |-> [i \in ids |-> -5], ks |-> [i \in ids |-> 19999],
            k0 |-> 10000] }
    ELSE IF seed \in {BOOM_BUST_SEED, EXODUS_SEED}
    THEN { [zs |-> [i \in ids |-> 0], ks |-> [i \in ids |-> 10000],
            k0 |-> 10000] }
    ELSE { [zs |-> [i \in ids |-> ZOf(Hash(seed, 0, Slot(i) + 50))],
            ks |-> [i \in ids |-> 20 * Hash(seed, 0, Slot(i) + 51)],
            k0 |-> 10000] }


\* ---------------------------------------------------------------------
\* run_simulation
\* ---------------------------------------------------------------------

VARIABLES
    PID_CADENCE,    \* the module global meshnet_model.PID_CADENCE
    args,           \* the arguments of the current call of run_simulation
    t,              \* loop variable of "for t in range(TIMESTEPS)"
    C, T, N, F_daily, P, E, B,
    integral, prev_error,
    slashed_total, fraud_total, cost_mult,
    agents, nAgents, bulk,
    records,        \* the list records, kept as RecordList below
    lifecycle,      \* the locals of update_operators at its last return
    pc,             \* "idle": no call; "loop": in the loop; "returned"
    caller,         \* the program that calls run_simulation and its locals
    all_records,    \* main: the rows gathered for simulation_results.csv,
                    \* kept run by run
    results         \* cadence_sweep.main: one summary per call

runVars == <<args, t, C, T, N, F_daily, P, E, B, integral, prev_error,
             slashed_total, fraud_total, cost_mult, agents, nAgents, bulk,
             records, lifecycle, pc>>

vars == <<runVars, PID_CADENCE, caller, all_records, results>>

\* The list records is only ever appended to and read after the return.
\* The model keeps of it what its readers take: len(records), records[-1]
\* and the number of places where E differs from the record before.  Every
\* record is records[-1] in the state after its append, so what holds of
\* records[-1] in every state holds of every record.
NoRecord ==
    [timestep |-> None, N |-> 0, E |-> 0, B |-> 0, F_daily |-> 0, P |-> 0,
     C |-> 0, T |-> 0, slashed_total |-> 0]

\* records = []
RecordList == [len |-> 0, last |-> NoRecord, adjustments |-> 0]

\* records.append(r)
AppendRecord(recs, r) ==
    [len |-> recs.len + 1, last |-> r,
     adjustments |-> recs.adjustments
                     + (IF recs.len > 0 /\ r.E # recs.last.E THEN 1 ELSE 0)]

\* run_simulation(scenario_name, scenario, use_pid, seed, kp, ki, kd,
\* slash_downtime, slash_fraud)
Args(sname, use_pid, seed, kp, ki, kd, sd, sf) ==
    [scenario |-> sname, use_pid |-> use_pid, seed |-> seed,
     kp |-> kp, ki |-> ki, kd |-> kd,
     slash_downtime |-> sd, slash_fraud |-> sf]

\* lines 363-382: the locals before the first iteration
RunStart(a, d0) ==
    LET pop == create_operators(N_INITIAL, TrackedInitial, d0.zs, d0.ks, d0.k0)
    IN  [args |-> a, t |-> 0, C |-> 200000000, T |-> 150000000,
         N |-> N_INITIAL, F_daily |-> 50000, P |-> 100000,
         E |-> BASE_EMISSION * 1000, B |-> 0, integral |-> 0,
         prev_error |-> 0, slashed_total |-> 0, fraud_total |-> 0,
         cost_mult |-> 100, agents |-> pop.agents, nAgents |-> N_INITIAL,
         bulk |-> pop.bulk, records |-> RecordList,
         lifecycle |-> NoLifecycle, pc |-> "loop"]

\* the locals of run_simulation while no call is under way
NoRun ==
    [args |-> Args("None", FALSE, None, None, None, None, None, None),
     t |-> 0, C |-> 0, T |-> 0, N |-> 0, F_daily |-> 0, P |-> 0, E |-> 0,
     B |-> 0, integral |-> 0, prev_error |-> 0, slashed_total |-> 0,
     fraud_total |-> 0, cost_mult |-> 100, agents |-> <<>>, nAgents |-> 0,
     bulk |-> [p \in BulkProfiles |-> [n |-> 0, stake |-> 0]],
     records |-> RecordList, lifecycle |-> NoLifecycle, pc |-> "idle"]

\* the locals hold the values of s (the arguments are the variables, primed
\* or not)
Locals(s, xargs, xt, xC, xT, xN, xF_daily, xP, xE, xB, xintegral, xprev_error, xslashed_total, xfraud_total, xcost_mult, xagents, xnAgents, xbulk, xrecords, xlifecycle, xpc) ==
    /\ xargs = s.args
    /\ xt = s.t
    /\ xC = s.C
    /\ xT = s.T
    /\ xN = s.N
    /\ xF_daily = s.F_daily
    /\ xP = s.P
    /\ xE = s.E
    /\ xB = s.B
    /\ xintegral = s.integral
    /\ xprev_error = s.prev_error
    /\ xslashed_total = s.slashed_total
    /\ xfraud_total = s.fraud_total
    /\ xcost_mult = s.cost_mult
    /\ xagents = s.agents
    /\ xnAgents = s.nAgents
    /\ xbulk = s.bulk
    /\ xrecords = s.records
    /\ xlifecycle = s.lifecycle
    /\ xpc = s.pc

\* the state in which the locals are s
StartsAs(s) ==
    Locals(s, args, t, C, T, N, F_daily, P, E, B, integral, prev_error,
           slashed_total, fraud_total, cost_mult, agents, nAgents, bulk,
           records, lifecycle, pc)

\* the step that makes the locals s: a call of run_simulation up to line 382
Becomes(s) ==
    Locals(s, args', t', C', T', N', F_daily', P', E', B', integral',
           prev_error', slashed_total', fraud_total', cost_mult', agents',
           nAgents', bulk', records', lifecycle', pc')

\* round(x, 0) of a value in 1/1000
Round3(x) == (x + 500) \div 1000

\* range(n) with its end included
range_inclusive(n) == 0..n

\* range(n)
range(n) == 0..(n - 1)

\* lines 393-399, PSUB 2: E, integral and prev_error after the emission
\* policy of day t
Emission(use_pid, n, e, integral_norm, prev_error_norm, day, kp, ki, kd, cadence) ==
    LET result == pid_emission(n, integral_norm, prev_error_norm, day,
                               kp, ki, kd, cadence)
    IN  IF use_pid
        THEN (IF result.updated
              THEN [E |-> result.E, integral |-> result.integral,
                    prev_error |-> result.prev_error]
              ELSE [E |-> e, integral |-> integral_norm,
                    prev_error |-> prev_error_norm])
        ELSE [E |-> static_emission(day), integral |-> integral_norm,
              prev_error |-> prev_error_norm]

\* PopulationCount without the floor of 1
PopulationCountNoFloor(ag, bk) == ActiveCount(ag, bk)

\* lines 423-425: N = max(1, sum(1 for a in agents if a["active"]))
PopulationCount(ag, bk) == Max(1, ActiveCount(ag, bk))

\* lines 412-453, PSUB 6-8 and the record, with the results of PSUB 1-5
Finish(d, sc, cost_mult1, F1, em, ops) ==
    LET B1 == burn_tokens(F1, P)
        agents1 == update_reputation(ops.agents, ops.bulk, t)
        P1 == update_price(P, F1, C, sc.price_drift, d.dW)
        acc == SupplyAccounting(C, T, em.E, B1, ops.slashed,
                                ops.treasury_subsidy)
        N1 == PopulationCount(agents1, ops.bulk)
    IN  /\ cost_mult' = cost_mult1
        /\ F_daily' = F1
        /\ E' = em.E
        /\ integral' = em.integral
        /\ prev_error' = em.prev_error
        /\ B' = B1
        /\ agents' = agents1
        /\ nAgents' = ops.len
        /\ bulk' = ops.bulk
        /\ lifecycle' = ops.locals
        /\ slashed_total' = slashed_total + ops.slashed
        /\ fraud_total' = fraud_total + ops.fraud_captured
        /\ P' = P1
        /\ C' = acc.C
        /\ T' = acc.T
        /\ N' = N1
        /\ records' = AppendRecord(records,
                             [timestep |-> t, N |-> N1, E |-> Round3(em.E),
                              B |-> B1, F_daily |-> F1, P |-> P1,
                              C |-> acc.C, T |-> acc.T,
                              slashed_total |-> slashed_total + ops.slashed])
        /\ t' = t + 1
        /\ UNCHANGED <<args, pc>>

\* Operators run after the price update: update_operators is handed the
\* price of PSUB 7
OperatorsAfterPrice(d, sc, cost_mult1, F1, em) ==
    Finish(d, sc, cost_mult1, F1, em,
           update_operators(agents, nAgents, bulk, em.E, F1, N,
                            update_price(P, F1, C, sc.price_drift, d.dW),
                            sc, t, d, T, cost_mult1, args.slash_downtime,
                            args.slash_fraud))

\* lines 403-407, PSUB 4+5, with the results of PSUB 1-2
Operators(d, sc, cost_mult1, F1, em) ==
    Finish(d, sc, cost_mult1, F1, em,
           update_operators(agents, nAgents, bulk, em.E, F1, N, P, sc, t, d,
                            T, cost_mult1, args.slash_downtime,
                            args.slash_fraud))

\* one iteration of the loop with the draws d
Iterate(d) ==
    LET sc == SCENARIOS[args.scenario]
        cost_mult1 == IF sc.shock_type = "cost_increase" /\ t >= ShockDay(sc)
                      THEN (IF sc.cost_multiplier # None
                            THEN sc.cost_multiplier ELSE 130)
                      ELSE cost_mult
    IN  Operators(d, sc, cost_mult1,
                  compute_demand(t, N, sc, d.zDemand, cost_mult1),
                  Emission(args.use_pid, N, E, integral, prev_error, t,
                           args.kp, args.ki, args.kd, PID_CADENCE))

\* the body of "for t in range(TIMESTEPS)"
Step ==
    /\ pc = "loop"
    /\ t \in range(TIMESTEPS)
    /\ args.seed = FREE_SEED => t < MaxDay
    /\ \E d \in DayDraws(args.seed, t, DOMAIN agents) : Iterate(d)
    /\ UNCHANGED <<PID_CADENCE, caller, all_records, results>>

\* return records
Return ==
    /\ pc = "loop"
    /\ t \notin range(TIMESTEPS)
    /\ pc' = "returned"
    /\ UNCHANGED <<args, t, C, T, N, F_daily, P, E, B, integral, prev_error,
                   slashed_total, fraud_total, cost_mult, agents, nAgents,
                   bulk, records, lifecycle, PID_CADENCE, caller, all_records, results>>

\* the calls explored: scenario, policy, seed, gains, slashing fractions
RunConfigs ==
    { Args("bull", TRUE, FREE_SEED, None, None, None, None, None),
      Args("bear", FALSE, FREE_SEED, None, None, None, None, None),
      Args("regulatory", TRUE, FREE_SEED, 160, 35, 50, 30, 60),
      Args("competitor", FALSE, FREE_SEED, None, None, None, 100, 100),
      Args("bull", TRUE, BOOM_BUST_SEED, None, None, None, None, None),
      Args("competitor", TRUE, BOOM_BUST_SEED, None, None, None, None, None),
      Args("competitor", TRUE, SEED + 2, 30, 5, 5, 2, 20),
      Args("bear", FALSE, SEED + 1, None, None, None, None, None) }

\* a caller that makes one call of run_simulation
Init ==
    /\ PID_CADENCE = PID_CADENCE_DEFAULT
    /\ caller = [prog |-> "call"]
    /\ all_records = <<>>
    /\ results = <<>>
    /\ \E a \in RunConfigs :
         \E d0 \in InitDraws(a.seed, TrackedInitial) : StartsAs(RunStart(a, d0))

Next == Step \/ Return

Spec == Init /\ [][Next]_vars


\* ---------------------------------------------------------------------
\* main() of meshnet_model.py in core mode, and validate.load_sim
\* ---------------------------------------------------------------------

\* parse_args: --seed, --scenarios, --pid-only, --static-only
Argv(seed, scenarios, pid_only, static_only) ==
    [seed |-> seed, scenarios |-> scenarios, pid_only |-> pid_only,
     static_only |-> static_only]

\* lines 481-485: models
Models(argv) ==
    (IF ~argv.static_only THEN <<TRUE>> ELSE <<>>)
    \o (IF ~argv.pid_only THEN <<FALSE>> ELSE <<>>)

\* the command lines explored: the default one, and
\* --seed 9 --scenarios bear --static-only
MainArgvs ==
    { Argv(SEED, ScenarioNames, FALSE, FALSE),
      Argv(EXODUS_SEED, <<"bear">>, FALSE, TRUE) }

\* all_records.extend(records): the rows of one run, kept as their number
\* and the two columns they share
Extend(rows, a, recs) ==
    Append(rows, [scenario |-> a.scenario,
                  emission_model |-> IF a.use_pid THEN "pid" ELSE "static",
                  rows |-> recs.len])

\* len(df) of df = pd.DataFrame(all_records)
RECURSIVE RowCount(_)
RowCount(rows) ==
    IF rows = <<>> THEN 0
    ELSE rows[Len(rows)].rows + RowCount(SubSeq(rows, 1, Len(rows) - 1))

InitMain ==
    /\ PID_CADENCE = PID_CADENCE_DEFAULT
    /\ \E argv \in MainArgvs :
         caller = [prog |-> "main", argv |-> argv, scenario_idx |-> 0,
                   model_idx |-> 1, pc |-> "loop"]
    /\ all_records = <<>>
    /\ results = <<>>
    /\ StartsAs(NoRun)

\* lines 492-498: records = run_simulation(scenario_name, scenario, use_pid,
\* seed), up to the loop
MainCall ==
    /\ caller.prog = "main"
    /\ caller.pc = "loop"
    /\ pc = "idle"
    /\ caller.scenario_idx < Len(caller.argv.scenarios)
    /\ LET a == Args(caller.argv.scenarios[caller.scenario_idx + 1],
                     Models(caller.argv)[caller.model_idx],
                     caller.argv.seed + caller.scenario_idx,
                     None, None, None, None, None)
       IN  \E d0 \in InitDraws(a.seed, TrackedInitial) :
               Becomes(RunStart(a, d0))
    /\ UNCHANGED <<PID_CADENCE, caller, all_records, results>>

\* line 499: all_records.extend(records), and the loop headers
MainExtend ==
    /\ caller.prog = "main"
    /\ pc = "returned"
    /\ all_records' = Extend(all_records, args, records)
    /\ caller' = IF caller.model_idx < Len(Models(caller.argv))
                 THEN [caller EXCEPT !.model_idx = @ + 1]
                 ELSE [caller EXCEPT !.model_idx = 1, !.scenario_idx = @ + 1]
    /\ pc' = "idle"
    /\ UNCHANGED <<args, t, C, T, N, F_daily, P, E, B, integral, prev_error,
                   slashed_total, fraud_total, cost_mult, agents, nAgents,
                   bulk, records, lifecycle, PID_CADENCE, results>>

\* lines 504-507: df.to_csv(out_path)
MainWrite ==
    /\ caller.prog = "main"
    /\ caller.pc = "loop"
    /\ pc = "idle"
    /\ caller.scenario_idx >= Len(caller.argv.scenarios)
    /\ caller' = [caller EXCEPT !.pc = "written"]
    /\ UNCHANGED <<runVars, PID_CADENCE, all_records, results>>

\* validate.load_sim: assert len(df) == 14600
load_sim ==
    /\ caller.prog = "main"
    /\ caller.pc = "written"
    /\ caller' = [caller EXCEPT !.pc = IF RowCount(all_records) = 14600
                                       THEN "loaded" ELSE "AssertionError"]
    /\ UNCHANGED <<runVars, PID_CADENCE, all_records, results>>

NextMain == MainCall \/ Step \/ Return \/ MainExtend \/ MainWrite \/ load_sim

SpecMain == InitMain /\ [][NextMain]_vars

\* ---------------------------------------------------------------------
\* main() of cadence_sweep.py
\* ---------------------------------------------------------------------

CADENCES == <<7, 14, 21, 30>>

\* lines 50-53: times E changed
Adjustments(recs) == recs.adjustments

InitSweep ==
    /\ PID_CADENCE = PID_CADENCE_DEFAULT
    /\ caller = [prog |-> "cadence_sweep", pc |-> "cadences",
                 original_cadence |-> PID_CADENCE_DEFAULT,
                 cadence_idx |-> 1, scenario_idx |-> 0]
    /\ all_records = <<>>
    /\ results = <<>>
    /\ StartsAs(NoRun)

\* lines 37-39: for cadence in CADENCES: mm.PID_CADENCE = cadence
SweepSetCadence ==
    /\ caller.prog = "cadence_sweep"
    /\ caller.pc = "cadences"
    /\ caller.cadence_idx <= Len(CADENCES)
    /\ PID_CADENCE' = CADENCES[caller.cadence_idx]
    /\ caller' = [caller EXCEPT !.pc = "scenarios", !.scenario_idx = 0]
    /\ UNCHANGED <<runVars, all_records, results>>

\* lines 41-46: records = run_simulation(sname, scenario, True, seed), up to
\* the loop
SweepCall ==
    /\ caller.prog = "cadence_sweep"
    /\ caller.pc = "scenarios"
    /\ pc = "idle"
    /\ caller.scenario_idx < Len(ScenarioNames)
    /\ LET a == Args(ScenarioNames[caller.scenario_idx + 1], TRUE,
                     SEED + caller.scenario_idx, None, None, None, None, None)
       IN  \E d0 \in InitDraws(a.seed, TrackedInitial) :
               Becomes(RunStart(a, d0))
    /\ UNCHANGED <<PID_CADENCE, caller, all_records, results>>

\* lines 47-87: results.append({...}); of the summary the model keeps
\* cadence_days, scenario, final_N, n_adjustments and final_P
SweepAppend ==
    /\ caller.prog = "cadence_sweep"
    /\ pc = "returned"
    /\ results' = Append(results,
                         [cadence_days |-> CADENCES[caller.cadence_idx],
                          scenario |-> args.scenario,
                          final_N |-> records.last.N,
                          n_adjustments |-> Adjustments(records),
                          final_P |-> records.last.P])
    /\ caller' = IF caller.scenario_idx + 1 < Len(ScenarioNames)
                 THEN [caller EXCEPT !.scenario_idx = @ + 1]
                 ELSE [caller EXCEPT !.pc = "cadences", !.cadence_idx = @ + 1]
    /\ pc' = "idle"
    /\ UNCHANGED <<args, t, C, T, N, F_daily, P, E, B, integral, prev_error,
                   slashed_total, fraud_total, cost_mult, agents, nAgents,
                   bulk, records, lifecycle, PID_CADENCE, all_records>>

\* line 90: mm.PID_CADENCE = original_cadence
SweepRestore ==
    /\ caller.prog = "cadence_sweep"
    /\ caller.pc = "cadences"
    /\ caller.cadence_idx > Len(CADENCES)
    /\ PID_CADENCE' = caller.original_cadence
    /\ caller' = [caller EXCEPT !.pc = "done"]
    /\ UNCHANGED <<runVars, all_records, results>>

NextSweep ==
    SweepSetCadence \/ SweepCall \/ Step \/ Return \/ SweepAppend
    \/ SweepRestore

SpecSweep == InitSweep /\ [][NextSweep]_vars

\* ---------------------------------------------------------------------
\* The emission policy alone: lines 393-399 of run_simulation applied day
\* after day to populations N that the rest of the loop body is free to
\* produce
\* ---------------------------------------------------------------------

\* days of a run under the PID policy that are explored
MaxEmissionDays == 45

\* values N takes
PopulationValues == {1, 10000, 20000, 60000}

\* gains kp, ki, kd passed to run_simulation, in 1/100
GainValues ==
    { <<None, None, None>>, <<80, 0, 0>>, <<160, 35, 50>>, <<30, 5, 5>> }

InitEmission ==
    /\ PID_CADENCE \in {7, PID_CADENCE_DEFAULT}
    /\ caller = [prog |-> "emission"]
    /\ all_records = <<>>
    /\ results = <<>>
    /\ \E use_pid \in BOOLEAN, g \in GainValues, n \in PopulationValues :
         /\ ~use_pid => g = <<None, None, None>> /\ n = 20000
         /\ StartsAs([NoRun EXCEPT
                        !.args = Args("bull", use_pid, FREE_SEED,
                                      g[1], g[2], g[3], None, None),
                        !.N = n, !.E = BASE_EMISSION * 1000, !.pc = "loop"])

EmissionStep ==
    /\ caller.prog = "emission"
    /\ t < (IF args.use_pid THEN MaxEmissionDays ELSE TIMESTEPS)
    /\ LET em == Emission(args.use_pid, N, E, integral, prev_error, t,
                          args.kp, args.ki, args.kd, PID_CADENCE)
       IN  /\ E' = em.E
           /\ integral' = em.integral
           /\ prev_error' = em.prev_error
    /\ N' \in (IF args.use_pid THEN PopulationValues ELSE {N})
    /\ t' = t + 1
    /\ UNCHANGED <<args, C, T, F_daily, P, B, slashed_total, fraud_total,
                   cost_mult, agents, nAgents, bulk, records, lifecycle,
                   pc, PID_CADENCE, caller, all_records, results>>

NextEmission == EmissionStep

SpecEmission == InitEmission /\ [][NextEmission]_vars


\* ---------------------------------------------------------------------
\* update_operators alone: the function applied, a few days in a row, to
\* populations, prices, emission rates and treasuries that a run can hand
\* it
\* ---------------------------------------------------------------------

\* calls of update_operators in a row
MaxLifecycleDays == 2

\* the combinations (n, P, E, T) explored: n operators from
\* create_operators, price in micro-dollars, emission in milli-tokens,
\* treasury in tokens.  The first family is about entry (prices at which
\* the yield is above and below 2 * OPPORTUNITY_COST, populations around
\* the thresholds of the taper), the second about the subsidy (low prices,
\* treasuries around 2% of TOTAL_SUPPLY).
LifecycleInputs ==
    ({1, 33, 34, 500, 999, 1000, 1001, 9999, 10000, 10001, 11000, 11600,
      11999, 12000, 12500}
        \X {100000, 50000000} \X {BASE_EMISSION * 1000} \X {150000000})
    \cup
    ({1, 500, 2000, 10000}
        \X {1000, 5000, 20000, 100000}
        \X {PID_MIN * 1000, BASE_EMISSION * 1000, PID_MAX * 1000}
        \X {0, 20000000, 20000001, 150000000})

InitLifecycle ==
    /\ PID_CADENCE = PID_CADENCE_DEFAULT
    /\ caller = [prog |-> "update_operators"]
    /\ all_records = <<>>
    /\ results = <<>>
    /\ \E in \in LifecycleInputs, sl \in {<<None, None>>, <<30, 60>>} :
         LET pop == create_operators(in[1], {0}, [i \in {0} |-> 0],
                                     [i \in {0} |-> 0], 10000)
         IN  StartsAs([NoRun EXCEPT
                         !.args = Args("bull", TRUE, FREE_SEED, None, None,
                                       None, sl[1], sl[2]),
                         !.N = in[1], !.P = in[2], !.E = in[3], !.T = in[4],
                         !.F_daily = 50000,
                         !.agents = pop.agents, !.nAgents = in[1],
                         !.bulk = pop.bulk, !.pc = "loop"])

\* agents, slashed, fraud, treas_subsidy = update_operators(agents, E,
\* F_daily, N, P, scenario, t, rng, T, cost_mult, slash_downtime, slash_fraud)
LifecycleStep ==
    /\ caller.prog = "update_operators"
    /\ t < MaxLifecycleDays
    /\ \E d \in DayPatterns(DOMAIN agents) :
         LET ops == update_operators(agents, nAgents, bulk, E, F_daily, N, P,
                                     SCENARIOS[args.scenario], t, d, T,
                                     cost_mult, args.slash_downtime,
                                     args.slash_fraud)
         IN  /\ agents' = ops.agents
             /\ nAgents' = ops.len
             /\ bulk' = ops.bulk
             /\ lifecycle' = ops.locals
    /\ t' = t + 1
    /\ UNCHANGED <<args, C, T, N, F_daily, P, E, B, integral, prev_error,
                   slashed_total, fraud_total, cost_mult, records, pc,
                   PID_CADENCE, caller, all_records, results>>

NextLifecycle == LifecycleStep

SpecLifecycle == InitLifecycle /\ [][NextLifecycle]_vars


\* ---------------------------------------------------------------------
\* ki_nonmonotonicity_test() of multi_seed.py.  The final N of each of its
\* runs is taken from a table: what the test does with the numbers does
\* not depend on where they come from.
\* ---------------------------------------------------------------------

N_SEEDS == 30

BASE_SEED == 1000

\* ki_values, in 1/100
KI_VALUES == <<5, 10, 15, 25, 35>>

\* final N per Ki value of one seed: the orders in which the runs of a
\* seed can come out that the tables are made of
KiRowA == <<500, 400, 300, 200, 100>>

KiRowB == <<400, 500, 300, 200, 100>>

\* the first two Ki values tie
KiRowC == <<500, 500, 300, 200, 100>>

\* the tables explored: <<a, b>> has row A for the first a seeds, row B
\* for the next b seeds and row C for the others
KiTables ==
    {tab \in {0, 10, 15, 17, 18, 19, 30} \X {0, 6, 11, 12, 13} :
        tab[1] + tab[2] <= N_SEEDS}

\* records[-1]["N"] of the run with ki_values[j] and seed BASE_SEED + k
KiFinalN(tab, j, k) ==
    IF k < tab[1] THEN KiRowA[j]
    ELSE IF k < tab[1] + tab[2] THEN KiRowB[j]
    ELSE KiRowC[j]

\* df.pivot(index="seed", columns="ki", values="final_N"): one row per
\* seed, one column per Ki value
Pivot(res) ==
    [k \in 0..(N_SEEDS - 1) |->
        [j \in 1..Len(KI_VALUES) |->
            res[CHOOSE i \in 1..Len(res) :
                    res[i].ki = KI_VALUES[j] /\ res[i].seed = BASE_SEED + k]
                .final_N]]

\* pivot.rank(axis=1, ascending=False): twice the rank of column j in a
\* row, ties sharing the average of their ranks
Rank2(row, j) ==
    2 * Cardinality({i \in DOMAIN row : row[i] > row[j]})
    + 1 + Cardinality({i \in DOMAIN row : row[i] = row[j]})

Rankings(pivot) ==
    [k \in DOMAIN pivot |-> [j \in DOMAIN pivot[k] |-> Rank2(pivot[k], j)]]

\* seeds in which column j has rank v
RankCount(rankings, j, v) ==
    Cardinality({k \in DOMAIN rankings : rankings[k][j] = v})

\* rankings.mode().iloc[0]: per column the most frequent rank, the
\* smallest of them if several are
ModalRank(rankings, j) ==
    LET vals == {rankings[k][j] : k \in DOMAIN rankings}
    IN  CHOOSE v \in vals :
            /\ \A w \in vals :
                   RankCount(rankings, j, v) >= RankCount(rankings, j, w)
            /\ \A w \in vals :
                   RankCount(rankings, j, w) = RankCount(rankings, j, v)
                       => v <= w

\* (rankings == modal_rank).mean() of column j, as the number of seeds of
\* N_SEEDS that agree
Consistency(rankings, j) == RankCount(rankings, j, ModalRank(rankings, j))

\* consistency.min()
MinConsistency(rankings) ==
    LET cs == {Consistency(rankings, j) : j \in 1..Len(KI_VALUES)}
    IN  CHOOSE c \in cs : \A x \in cs : c <= x

\* line 142: "STRUCTURAL" if min_consistency > 0.60 else "PATH-DEPENDENT";
\* 18 / 30 and 0.60 are the same double
Verdict(min_consistency) ==
    IF min_consistency * 100 > 60 * N_SEEDS THEN "STRUCTURAL"
    ELSE "PATH-DEPENDENT"

InitKi ==
    /\ PID_CADENCE = PID_CADENCE_DEFAULT
    /\ \E tab \in KiTables :
         caller = [prog |-> "ki_nonmonotonicity_test", pc |-> "runs",
                   table |-> tab, ki_idx |-> 1, seed_offset |-> 0,
                   min_consistency |-> None, verdict |-> "None"]
    /\ all_records = <<>>
    /\ results = <<>>
    /\ StartsAs(NoRun)

\* lines 111-121: one run and results.append({"ki", "seed", "final_N"})
KiRun ==
    /\ caller.prog = "ki_nonmonotonicity_test"
    /\ caller.pc = "runs"
    /\ caller.ki_idx <= Len(KI_VALUES)
    /\ results' = Append(results,
                         [ki |-> KI_VALUES[caller.ki_idx],
                          seed |-> BASE_SEED + caller.seed_offset,
                          final_N |-> KiFinalN(caller.table, caller.ki_idx,
                                               caller.seed_offset)])
    /\ caller' = IF caller.seed_offset + 1 < N_SEEDS
                 THEN [caller EXCEPT !.seed_offset = @ + 1]
                 ELSE [caller EXCEPT !.seed_offset = 0, !.ki_idx = @ + 1]
    /\ UNCHANGED <<runVars, PID_CADENCE, all_records>>

\* lines 123-144: the ranking and the verdict
KiVerdict ==
    /\ caller.prog = "ki_nonmonotonicity_test"
    /\ caller.pc = "runs"
    /\ caller.ki_idx > Len(KI_VALUES)
    /\ caller' =
         [caller EXCEPT
            !.pc = "done",
            !.min_consistency = MinConsistency(Rankings(Pivot(results))),
            !.verdict = Verdict(MinConsistency(Rankings(Pivot(results))))]
    /\ UNCHANGED <<runVars, PID_CADENCE, all_records, results>>

NextKi == KiRun \/ KiVerdict

SpecKi == InitKi /\ [][NextKi]_vars


\* ---------------------------------------------------------------------
\* main() of validate.py.  Its inputs are the files it finds: whether
\* simulation_results.csv, calibration_params.json, sensitivity_results.csv
\* and slashing_sensitivity_results.csv exist and how many rows the first
\* has.  What a check decides from the numbers in the files is left open:
\* each check passes, fails or raises.
\* ---------------------------------------------------------------------

\* lines 373-384: checks
CHECKS ==
    <<"pid_stability", "static_divergence", "burn_mint_dynamics",
      "wash_trading_defense", "reputation_compression", "supply_accounting",
      "price_nonneg", "exhibits", "sensitivity_robustness",
      "slashing_sensitivity">>

\* the files main can find
ValidateFiles ==
    [sim : BOOLEAN, rows : {14600, 7300}, cal : BOOLEAN, sens : BOOLEAN,
     slash : BOOLEAN]

\* lines 359-365 without the test of line 359: read_csv on the missing
\* file raises
ValidateEntryNoGuard(files) ==
    IF ~files.sim
    THEN [pc |-> "exited", exit_status |-> 1, uncaught |-> "FileNotFoundError",
          stdout |-> {}]
    ELSE IF files.rows # 14600
    THEN [pc |-> "exited", exit_status |-> 1, uncaught |-> "AssertionError",
          stdout |-> IF files.cal THEN {} ELSE {"calibration_params.json"}]
    ELSE [pc |-> "checks", exit_status |-> None, uncaught |-> "None",
          stdout |-> IF files.cal THEN {} ELSE {"calibration_params.json"}]

\* lines 359-365: sys.exit(1) if simulation_results.csv is missing, a
\* warning if calibration_params.json is, then load_sim; stdout holds the
\* files reported as not found
ValidateEntry(files) ==
    IF ~files.sim
    THEN [pc |-> "exited", exit_status |-> 1, uncaught |-> "None",
          stdout |-> {"simulation_results.csv"}]
    ELSE IF files.rows # 14600
    THEN [pc |-> "exited", exit_status |-> 1, uncaught |-> "AssertionError",
          stdout |-> IF files.cal THEN {} ELSE {"calibration_params.json"}]
    ELSE [pc |-> "checks", exit_status |-> None, uncaught |-> "None",
          stdout |-> IF files.cal THEN {} ELSE {"calibration_params.json"}]

\* check_fn(df): o is what the check makes of the data, "pass", "fail" or
\* "raise"; check_9_sensitivity and check_10_slashing_sensitivity return
\* False with a message when their file is missing
RunCheck(name, files, o) ==
    IF name = "sensitivity_robustness" /\ ~files.sens
    THEN [passed |-> FALSE, raised |-> FALSE,
          stdout |-> {"sensitivity_results.csv"}]
    ELSE IF name = "slashing_sensitivity" /\ ~files.slash
    THEN [passed |-> FALSE, raised |-> FALSE,
          stdout |-> {"slashing_sensitivity_results.csv"}]
    ELSE [passed |-> o = "pass", raised |-> o = "raise",
          stdout |-> IF o = "raise" THEN {"ERROR in check"} ELSE {}]

InitValidate ==
    /\ PID_CADENCE = PID_CADENCE_DEFAULT
    /\ \E files \in ValidateFiles :
         caller = [prog |-> "validate", pc |-> "start", files |-> files,
                   idx |-> 1, pass_count |-> 0, all_passed |-> TRUE,
                   exit_status |-> None, uncaught |-> "None", stdout |-> {}]
    /\ all_records = <<>>
    /\ results = <<>>
    /\ StartsAs(NoRun)

\* lines 354-371
ValidateStart ==
    /\ caller.prog = "validate"
    /\ caller.pc = "start"
    /\ LET e == ValidateEntry(caller.files)
       IN  caller' = [caller EXCEPT !.pc = e.pc,
                                    !.exit_status = e.exit_status,
                                    !.uncaught = e.uncaught,
                                    !.stdout = e.stdout]
    /\ UNCHANGED <<runVars, PID_CADENCE, all_records, results>>

\* lines 387-398: one iteration of "for name, check_fn in checks"
ValidateCheck ==
    /\ caller.prog = "validate"
    /\ caller.pc = "checks"
    /\ caller.idx <= Len(CHECKS)
    /\ \E o \in {"pass", "fail", "raise"} :
         LET c == RunCheck(CHECKS[caller.idx], caller.files, o)
             passed == c.passed /\ ~c.raised
         IN  /\ results' = Append(results, [name |-> CHECKS[caller.idx],
                                            passed |-> passed])
             /\ caller' = [caller EXCEPT
                             !.idx = @ + 1,
                             !.pass_count = IF passed THEN @ + 1 ELSE @,
                             !.all_passed = IF passed THEN @ ELSE FALSE,
                             !.stdout = @ \cup c.stdout]
    /\ UNCHANGED <<runVars, PID_CADENCE, all_records>>

\* lines 400-420 and 424: sys.exit(0 if all_passed else 1)
ValidateExit ==
    /\ caller.prog = "validate"
    /\ caller.pc = "checks"
    /\ caller.idx > Len(CHECKS)
    /\ caller' = [caller EXCEPT
                    !.pc = "exited",
                    !.exit_status = IF caller.all_passed THEN 0 ELSE 1]
    /\ UNCHANGED <<runVars, PID_CADENCE, all_records, results>>

NextValidate == ValidateStart \/ ValidateCheck \/ ValidateExit

SpecValidate == InitValidate /\ [][NextValidate]_vars


\* ---------------------------------------------------------------------
\* The import of meshnet_model.py: lines 38-43 load calibration_params.json
\* into CAL, lines 75-81 take the calibrated constants from it.  kappa, L,
\* k and t0 are in 1/1000, sigma in 10^-6.
\* ---------------------------------------------------------------------

OU_KAPPA_DEFAULT == 2800

OU_SIGMA_DEFAULT == 49000

S2R_L_DEFAULT == 1500

S2R_K_DEFAULT == 700

S2R_T0_DEFAULT == 28000

\* {}
EmptyDict == [k \in {} |-> 0]

\* the sections of the file with keys among those of vals, a function from
\* keys to the sets of values explored
Sections(vals) ==
    LET dicts == UNION {[ks -> UNION {vals[k] : k \in ks}] :
                          ks \in SUBSET DOMAIN vals}
    IN  {d \in dicts : \A k \in DOMAIN d : d[k] \in vals[k]}

PriceValues ==
    [mesh_ou_kappa |-> {2800, 3500}, mesh_ou_sigma |-> {49000, 61000}]

S2RValues ==
    [logistic_L |-> {1500, 1700}, logistic_k |-> {700, 900},
     logistic_t0 |-> {28000, 30000}]

\* calibration_params.json: absent, or a dict with or without the sections
\* "price" and "s2r"
CalibrationFiles ==
    { [exists |-> FALSE, content |-> EmptyDict] }
    \cup { [exists |-> TRUE, content |-> EmptyDict] }
    \cup { [exists |-> TRUE, content |-> [k \in {"price"} |-> pr]] :
             pr \in Sections(PriceValues) }
    \cup { [exists |-> TRUE, content |-> [k \in {"s2r"} |-> sr]] :
             sr \in Sections(S2RValues) }
    \cup { [exists |-> TRUE,
            content |-> [k \in {"price", "s2r"} |->
                            IF k = "price" THEN pr ELSE sr]] :
             pr \in Sections(PriceValues), sr \in Sections(S2RValues) }

\* d.get(key, default)
DictGet(d, key, default) == IF key \in DOMAIN d THEN d[key] ELSE default

\* the import that does not read the file
LoadCalibrationNever(file) == EmptyDict

\* lines 38-43: CAL = json.load(f), {} on FileNotFoundError
LoadCalibration(file) == IF file.exists THEN file.content ELSE EmptyDict

InitImport ==
    /\ PID_CADENCE = PID_CADENCE_DEFAULT
    /\ \E file \in CalibrationFiles :
         caller = [prog |-> "import meshnet_model", pc |-> "line 38",
                   file |-> file, CAL |-> EmptyDict,
                   OU_KAPPA |-> None, OU_SIGMA |-> None, S2R_L |-> None,
                   S2R_K |-> None, S2R_T0 |-> None]
    /\ all_records = <<>>
    /\ results = <<>>
    /\ StartsAs(NoRun)

\* lines 38-43
ImportLoad ==
    /\ caller.prog = "import meshnet_model"
    /\ caller.pc = "line 38"
    /\ caller' = [caller EXCEPT !.pc = "line 75",
                                !.CAL = LoadCalibration(caller.file)]
    /\ UNCHANGED <<runVars, PID_CADENCE, all_records, results>>

\* lines 75-81
ImportConstants ==
    /\ caller.prog = "import meshnet_model"
    /\ caller.pc = "line 75"
    /\ LET price == DictGet(caller.CAL, "price", EmptyDict)
           s2r   == DictGet(caller.CAL, "s2r", EmptyDict)
       IN  caller' =
             [caller EXCEPT
                !.pc = "imported",
                !.OU_KAPPA = DictGet(price, "mesh_ou_kappa", OU_KAPPA_DEFAULT),
                !.OU_SIGMA = DictGet(price, "mesh_ou_sigma", OU_SIGMA_DEFAULT),
                !.S2R_L = DictGet(s2r, "logistic_L", S2R_L_DEFAULT),
                !.S2R_K = DictGet(s2r, "logistic_k", S2R_K_DEFAULT),
                !.S2R_T0 = DictGet(s2r, "logistic_t0", S2R_T0_DEFAULT)]
    /\ UNCHANGED <<runVars, PID_CADENCE, all_records, results>>

NextImport == ImportLoad \/ ImportConstants

SpecImport == InitImport /\ [][NextImport]_vars


\* ---------------------------------------------------------------------
\* One call of update_operators on the 2,000 operators of
\* create_operators after some seasons, the day before and on the day of
\* the poach shock, with the draws of the call kept by the caller
\* ---------------------------------------------------------------------

InitExit ==
    /\ PID_CADENCE = PID_CADENCE_DEFAULT
    /\ all_records = <<>>
    /\ results = <<>>
    /\ \E sn \in {"bull", "competitor"}, day \in {539, 540},
          price \in {20000, 60000, 100000, 500000}, seasons \in 0 .. 3,
          sl \in {<<None, None>>, <<100, 100>>} :
         LET pop == create_operators(N_INITIAL, TrackedInitial,
                                     [i \in TrackedInitial |-> 0],
                                     [i \in TrackedInitial |-> 0], 10000)
             ag  == [i \in TrackedInitial |->
                       [pop.agents[i] EXCEPT !.seasons_active = seasons]]
         IN  /\ caller = [prog |-> "update_operators once", pc |-> "call",
                          before |-> ag, d |-> Quiet(TrackedInitial),
                          op_cost |-> None]
             /\ StartsAs([NoRun EXCEPT
                            !.args = Args(sn, TRUE, FREE_SEED, None, None,
                                          None, sl[1], sl[2]),
                            !.t = day, !.N = N_INITIAL, !.P = price,
                            !.E = BASE_EMISSION * 1000, !.T = 150000000,
                            !.F_daily = 50000, !.agents = ag,
                            !.nAgents = N_INITIAL, !.bulk = pop.bulk,
                            !.pc = "loop"])

\* the call; besides the days of DayPatterns, days on which the exit draw
\* of every operator is u per mille at mean and at high operating cost
ExitStep ==
    /\ caller.prog = "update_operators once"
    /\ caller.pc = "call"
    /\ \E d \in DayPatterns(DOMAIN agents)
               \cup { [Quiet(DOMAIN agents) EXCEPT
                         !.zCost = z, !.exitU = [i \in DOMAIN agents |-> u],
                         !.exitPm = u + 1] :
                      z \in {0, 4}, u \in {0, 2, 3, 5, 7, 8} } :
         LET ops == update_operators(agents, nAgents, bulk, E, F_daily, N, P,
                                     SCENARIOS[args.scenario], t, d, T,
                                     cost_mult, args.slash_downtime,
                                     args.slash_fraud)
         IN  /\ agents' = ops.agents
             /\ nAgents' = ops.len
             /\ bulk' = ops.bulk
             /\ lifecycle' = ops.locals
             /\ caller' = [caller EXCEPT
                             !.pc = "returned", !.d = d,
                             !.op_cost = OpCost(d.zCost, cost_mult)]
    /\ UNCHANGED <<args, t, C, T, N, F_daily, P, E, B, integral, prev_error,
                   slashed_total, fraud_total, cost_mult, records, pc,
                   PID_CADENCE, all_records, results>>

NextExit == ExitStep

SpecExit == InitExit /\ [][NextExit]_vars


\* ---------------------------------------------------------------------
\* The treasury over a run: the subsidy of lines 280-287 and the
\* accounting of lines 418-421, day after day, at 10,000 operators, the
\* emission rate at PID_MIN and prices that draw on the treasury as much as
\* the code lets them
\* ---------------------------------------------------------------------

\* days of a run explored
MaxTreasuryDays == 260

\* a price in micro-dollars at which the deficit of active_count operators
\* is just below 1% of the treasury tr
DrainPrice(active_count, tr) == (active_count * 25000) \div (tr \div 10000) + 1

InitTreasury ==
    /\ PID_CADENCE = PID_CADENCE_DEFAULT
    /\ caller = [prog |-> "treasury"]
    /\ all_records = <<>>
    /\ results = <<>>
    /\ StartsAs([NoRun EXCEPT
                   !.args = Args("bear", TRUE, FREE_SEED, None, None, None,
                                 None, None),
                   !.C = 200000000, !.T = 150000000, !.N = N_TARGET,
                   !.F_daily = 50000, !.P = 100000,
                   !.E = PID_MIN * 1000, !.pc = "loop"])

\* one day: the price of the day is high (no deficit), at DrainPrice, or
\* half of it (a deficit above 1% of the treasury); operators are slashed
\* on the first day or not at all
TreasuryStep ==
    /\ caller.prog = "treasury"
    /\ t < MaxTreasuryDays
    /\ \E price \in {1000000, DrainPrice(N, Max(T, 10000)),
                     DrainPrice(N, Max(T, 10000)) \div 2},
          slashed \in (IF t = 0 THEN {0, 6000000} ELSE {0}) :
         LET yield_usd == YieldUsd(PerOpTokens(E, F_daily, N), price)
             subsidy   == TreasurySubsidy(yield_usd, price, N, T)
             acc       == SupplyAccounting(C, T, E, 0, slashed, subsidy)
         IN  /\ P' = price
             /\ C' = acc.C
             /\ T' = acc.T
             /\ slashed_total' = slashed_total + slashed
             /\ lifecycle' = [NoLifecycle EXCEPT
                                !.n_active = N, !.slashed = slashed,
                                !.per_op_yield_usd = yield_usd,
                                !.treasury_subsidy = subsidy]
    /\ t' = t + 1
    /\ UNCHANGED <<args, N, F_daily, E, B, integral, prev_error, fraud_total,
                   cost_mult, agents, nAgents, bulk, records, pc,
                   PID_CADENCE, caller, all_records, results>>

NextTreasury == TreasuryStep

SpecTreasury == InitTreasury /\ [][NextTreasury]_vars


\* ---------------------------------------------------------------------
\* Properties
\* ---------------------------------------------------------------------

\* C1: after each day's supply accounting the circulating supply lies in
\* 0..TOTAL_SUPPLY and the treasury is not negative, in the locals and in
\* the record of the day, for every scenario, both policies and every
\* slashing fraction of the calls.
C1_SupplyBounds ==
    pc # "idle" =>
        /\ 0 <= C /\ C <= TOTAL_SUPPLY
        /\ T >= 0
        /\ records.len > 0 =>
               /\ records.last.C = C
               /\ records.last.T = T

\* a day on which burns and slashes exceed what circulates: the floor acts
C1_Witness == pc = "loop" /\ t > 0 /\ C = 0 /\ B > E \div 1000

\* C2: the emission rate stays in PID_MIN..PID_MAX, under the PID policy
\* for every gain triple and every sequence of populations, and under
\* the static policy on every day of the horizon.
C2_EmissionBounds ==
    /\ PID_MIN * 1000 <= E
    /\ E <= PID_MAX * 1000

\* the controller held at the floor by a population far above the target
C2_Witness == args.use_pid /\ t > 0 /\ E = PID_MIN * 1000 /\ prev_error < 0

\* C3: calls of run_simulation with identical arguments return identical
\* records.  cadence_sweep.main calls run_simulation(sname, scenario, True,
\* SEED + scenario_idx) once per cadence, so two summaries of the same
\* scenario come from calls with identical arguments and must agree in
\* everything computed from the records.
C3_SameArgsSameRecords ==
    \A i, j \in DOMAIN results :
        results[i].scenario = results[j].scenario =>
            /\ results[i].final_N = results[j].final_N
            /\ results[i].n_adjustments = results[j].n_adjustments
            /\ results[i].final_P = results[j].final_P

\* C4: under the PID policy a day t with t mod PID_CADENCE # 0 leaves the
\* emission rate, the integral and the previous error as they were.
C4_OffCadenceNoOp ==
    [][(args.use_pid /\ t % PID_CADENCE # 0) =>
           /\ E' = E
           /\ integral' = integral
           /\ prev_error' = prev_error]_vars

\* day 1 is over: what the evaluation of day 0 set is still there
C4_Witness ==
    /\ args.use_pid
    /\ t = 2
    /\ E # BASE_EMISSION * 1000
    /\ integral # 0
    /\ prev_error = integral

\* C5: the integral of the controller stays in [-5.0, 5.0] whatever the
\* populations and the gains.
C5_IntegralBounded ==
    /\ -50000 <= integral
    /\ integral <= 50000

\* six evaluations in a row with the population at 1: the error summed
\* would be 5.9994, the integral is 5.0
C5_Witness == args.use_pid /\ integral = 50000 /\ prev_error = 9999

\* C6: an evaluation with N = 20000, Kp = 0.8, Ki = Kd = 0, integral 0 and
\* previous error 0 finds the error -1.0 and the candidate 21917.8, and
\* sets E to PID_MIN = 27397.
C6_SaturationExample ==
    [][(/\ args.use_pid
        /\ args.kp = 80 /\ args.ki = 0 /\ args.kd = 0
        /\ t % PID_CADENCE = 0
        /\ N = 20000 /\ integral = 0 /\ prev_error = 0) =>
           /\ prev_error' = -10000
           /\ Candidate(args.kp * prev_error'
                        + args.ki * integral' + args.kd * prev_error')
                  = 21917800
           /\ E' = 27397000]_vars

\* the state the example ends in
C6_Witness ==
    /\ args.use_pid
    /\ args.kp = 80 /\ args.ki = 0 /\ args.kd = 0
    /\ t = 1 /\ prev_error = -10000 /\ integral = -10000
    /\ E = PID_MIN * 1000

\* C7: the list of operators only grows, every operator has its list
\* index as id and keeps it, and an operator that is inactive stays so.
C7_Tombstones ==
    [][/\ nAgents' >= nAgents
       /\ \A i \in DOMAIN agents :
            /\ agents[i].id = i
            /\ i \in DOMAIN agents'
            /\ agents'[i].id = agents[i].id
            /\ ~agents[i].active => ~agents'[i].active
       /\ \A i \in DOMAIN agents' :
            /\ agents'[i].id = i
            /\ i < nAgents']_vars

\* operators have been appended at the end of the list, the first of them
\* with id 2000, and an operator of the list is inactive
C7_Witness ==
    /\ t >= 2
    /\ nAgents > N_INITIAL
    /\ N_INITIAL \in DOMAIN agents
    /\ agents[N_INITIAL].id = N_INITIAL
    /\ \E i \in DOMAIN agents : ~agents[i].active

\* C8: no operator's stake is ever negative, whatever the slashing
\* fractions of the call.
C8_StakeNonNegative ==
    /\ \A i \in DOMAIN agents : agents[i].stake >= 0
    /\ \A p \in BulkProfiles : bulk[p].stake >= 0

\* downtime (30%) and fraud (60%) slashed on one day: 10000, 7000, 2800
C8_Witness ==
    /\ args.slash_downtime = 30 /\ args.slash_fraud = 60
    /\ t = 1
    /\ \E i \in DOMAIN agents : agents[i].stake = 2800

\* C9: every record has N >= 1 and P >= 0.001, and the N of the day's
\* record is max(1, number of active operators).
C9_PopulationAndPriceFloors ==
    records.len > 0 =>
        /\ records.last.N >= 1
        /\ records.last.P >= P_FLOOR
        /\ records.last.P = P
        /\ pc = "loop" => records.last.N = Max(1, ActiveCount(agents, bulk))

\* every operator has left, and a day that began with none is recorded
\* with N = 1
C9_Witness ==
    /\ pc = "loop"
    /\ records.len > 1
    /\ ActiveCount(agents, bulk) = 0
    /\ records.last.N = 1

\* C10: a call of run_simulation makes one record per iteration, stops
\* after TIMESTEPS iterations and returns TIMESTEPS records with timesteps
\* 0, 1, ..., TIMESTEPS - 1; the default command line of main gathers
\* 14,600 rows, which load_sim accepts.
C10_RecordsPerRun ==
    /\ pc = "loop" => t <= TIMESTEPS /\ records.len = t
    /\ records.len > 0 => records.last.timestep = records.len - 1
    /\ pc = "returned" => records.len = TIMESTEPS
    /\ (/\ caller.prog = "main"
        /\ caller.argv = Argv(SEED, ScenarioNames, FALSE, FALSE)
        /\ caller.pc # "loop") =>
         /\ Len(all_records) = 8
         /\ RowCount(all_records) = 14600
         /\ caller.pc \in {"written", "loaded"}

\* the default invocation has written its rows and load_sim has taken them
C10_Witness ==
    /\ caller.prog = "main"
    /\ caller.argv = Argv(SEED, ScenarioNames, FALSE, FALSE)
    /\ caller.pc = "loaded"
    /\ RowCount(all_records) = 8 * TIMESTEPS

\* C11: on a day when entry is triggered (per-operator yield above
\* 2 * OPPORTUNITY_COST) the number of entrants before tapering is
\* min(int(active_count * 0.03), ENTRY_CAP_ABS), 15 for active_count = 500,
\* and no more than 30 operators are appended; on a day when the yield is
\* not above 2 * OPPORTUNITY_COST, or no operator is active, the list keeps
\* its length.
C11_EntryCap ==
    [][t' = t + 1 =>
         LET l == lifecycle'
             triggered == /\ l.per_op_yield_usd # None
                          /\ l.per_op_yield_usd > 2 * OPPORTUNITY_COST
         IN  /\ triggered =>
                   /\ l.base_new = (IF (l.active_count * 3) \div 100 < 30
                                    THEN (l.active_count * 3) \div 100 ELSE 30)
                   /\ l.active_count = 500 => l.base_new = 15
                   /\ nAgents' - nAgents = l.new_count
                   /\ nAgents' - nAgents <= l.base_new
                   /\ nAgents' - nAgents <= 30
             /\ ~triggered =>
                   /\ nAgents' = nAgents
                   /\ DOMAIN agents' = DOMAIN agents
                   /\ l.base_new = None]_vars

\* 500 operators are active after the day's exits, entry is triggered and
\* 15 operators have been appended
C11_Witness ==
    /\ lifecycle.active_count = 500
    /\ lifecycle.per_op_yield_usd > 2 * OPPORTUNITY_COST
    /\ lifecycle.base_new = 15
    /\ nAgents = 515

C13_SubsidyGuard ==
    [][t' = t + 1 =>
         LET l == lifecycle'
         IN  /\ l.treasury_subsidy >= 0
             /\ l.treasury_subsidy * 100 <= T
             /\ l.treasury_subsidy > 0 =>
                   /\ l.per_op_yield_usd # None
                   /\ l.per_op_yield_usd < OPPORTUNITY_COST \div 2
                   /\ T > TOTAL_SUPPLY \div 50]_vars

\* a subsidy drawn from a treasury one token above the reserve floor
C13_Witness ==
    /\ lifecycle.treasury_subsidy > 0
    /\ T = 20000001

\* C14: whenever at least one operator is active, the per-operator yield is
\* below half of OPPORTUNITY_COST and the treasury is above 2% of
\* TOTAL_SUPPLY, a positive subsidy is drawn that day.
C14_SubsidyDrawn ==
    [][(/\ t' = t + 1
        /\ lifecycle'.n_active >= 1
        /\ lifecycle'.per_op_yield_usd < OPPORTUNITY_COST \div 2
        /\ T > TOTAL_SUPPLY \div 50) =>
           lifecycle'.treasury_subsidy > 0]_vars

\* C15: on a day when a subsidy is drawn, the per-operator yield that the
\* exit decisions of the day compare with the thresholds (per_op_yield_usd
\* of line 267) is at least half of OPPORTUNITY_COST.
C15_SubsidyTopsUpYield ==
    lifecycle.treasury_subsidy > 0 =>
        lifecycle.per_op_yield_usd >= OPPORTUNITY_COST \div 2

\* C16: the poach shock happens on one day only, t = shock_month * 30 = 540
\* of a run of the competitor scenario; it takes
\* min(int(active_count * poach_rate), active operators that are not
\* high_commitment) operators, active_count being the number of active
\* operators after the exits of the day, and none that is high_commitment.
\* On every other day the active operators after the call are those left
\* by the exits plus the entrants.  (In the runs of BOOM_BUST_SEED no
\* operator exits and every entrant is casual, so whoever leaves was
\* poached.)
C16_PoachShock ==
    [][(t' = t + 1 /\ lifecycle'.active_count # None) =>
         LET l == lifecycle'
             entered == IF l.new_count = None THEN 0 ELSE l.new_count
             hc(ag, bk) ==
                 Cardinality({i \in DOMAIN ag :
                     ag[i].active /\ ag[i].type = "high_commitment"})
                 + SumOver([q \in BulkProfiles |-> bk[q].n],
                           {q \in BulkProfiles : q.type = "high_commitment"})
             day == args.scenario = "competitor" /\ t = 18 * 30
         IN  /\ (l.poached # None) <=> day
             /\ (l.poach_n # None) <=> day
             /\ ~day => ActiveCount(agents', bulk') = l.active_count + entered
             /\ day =>
                   /\ l.poach_n = l.active_count \div 4
                   /\ l.poached <= l.poach_n
                   /\ l.poached < l.poach_n =>
                         ActiveCount(agents', bulk') = hc(agents', bulk')
                   /\ ActiveCount(agents', bulk')
                         = l.active_count + entered - l.poached
                   /\ args.seed = BOOM_BUST_SEED =>
                         /\ l.active_count = l.n_active
                         /\ hc(agents', bulk') = hc(agents, bulk)]_vars

\* the day after the shock: a quarter of the operators has been poached
\* and high_commitment operators are still active
C16_Witness ==
    /\ args.scenario = "competitor"
    /\ pc = "loop"
    /\ t = 541
    /\ lifecycle.poached > 0
    /\ lifecycle.poached = lifecycle.active_count \div 4
    /\ \E i \in DOMAIN agents :
         agents[i].active /\ agents[i].type = "high_commitment"

\* C17: reputation and season count of an operator change only on a day
\* t > 0 with t mod 90 = 0 and only if the operator is active when
\* update_reputation runs, the season count then grows by exactly 1; an
\* inactive operator keeps both; and every reputation stays in [0, 5.0].
C17_Reputation ==
    /\ [](\A i \in DOMAIN agents :
            agents[i].reputation >= 0 /\ agents[i].reputation <= 5000000)
    /\ [][(pc = "loop" /\ t' = t + 1) =>
            \A i \in DOMAIN agents :
                LET a == agents[i]
                    b == agents'[i]
                    fires == t > 0 /\ t % 90 = 0
                IN  /\ (b.reputation # a.reputation
                        \/ b.seasons_active # a.seasons_active) =>
                           fires /\ b.active
                    /\ (fires /\ b.active) =>
                           b.seasons_active = a.seasons_active + 1
                    /\ ~a.active =>
                           /\ b.reputation = a.reputation
                           /\ b.seasons_active = a.seasons_active]_vars

\* an operator whose reputation has reached the ceiling, and one that was
\* poached on day 540, before the sixth update, and has kept its five
\* seasons since
C17_Witness ==
    /\ t > 1260
    /\ \E i \in DOMAIN agents :
         agents[i].active /\ agents[i].reputation = 5000000
    /\ \E j \in DOMAIN agents :
         ~agents[j].active /\ agents[j].seasons_active = 5

\* C18: every day runs demand, controller, burn, operator lifecycle,
\* reputation, price, supply accounting, active-count refresh and record,
\* in this order: demand and controller read the N of the end of the day
\* before; burn and lifecycle read the price from before the day's price
\* update (and the F_daily and E of the day); the price update reads the
\* circulating supply from before the day's accounting; the accounting
\* takes the day's E, B, slashed and subsidy; N is refreshed from the list
\* the lifecycle left; and the record holds t and the new N, P, C and T.
C18_StepOrder ==
    [][(pc = "loop" /\ t' = t + 1) =>
         \E d \in DayDraws(args.seed, t, DOMAIN agents) :
            LET sc == SCENARIOS[args.scenario]
                l  == lifecycle'
                em == Emission(args.use_pid, N, E, integral, prev_error, t,
                               args.kp, args.ki, args.kd, PID_CADENCE)
                acc == SupplyAccounting(C, T, E', B', l.slashed,
                                        l.treasury_subsidy)
            IN  /\ F_daily' = compute_demand(t, N, sc, d.zDemand, cost_mult')
                /\ E' = em.E
                /\ integral' = em.integral
                /\ prev_error' = em.prev_error
                /\ B' = burn_tokens(F_daily', P)
                /\ l.n_active = ActiveCount(agents, bulk)
                /\ l.n_active > 0 =>
                     l.per_op_yield_usd
                       = YieldUsd(PerOpTokens(E', F_daily', l.n_active), P)
                /\ P' = update_price(P, F_daily', C, sc.price_drift, d.dW)
                /\ C' = acc.C
                /\ T' = acc.T
                /\ slashed_total' = slashed_total + l.slashed
                /\ N' = Max(1, ActiveCount(agents', bulk'))
                /\ records'.len = records.len + 1
                /\ records'.last.timestep = t
                /\ records'.last.N = N'
                /\ records'.last.P = P'
                /\ records'.last.C = C'
                /\ records'.last.T = T'
                /\ records'.last.B = B'
                /\ records'.last.F_daily = F_daily']_vars

\* a day on which the price, the supply, the population and the treasury
\* have all moved
C18_Witness ==
    /\ pc = "loop"
    /\ t = 3
    /\ args.seed # FREE_SEED
    /\ records.len = 3
    /\ records.last.timestep = 2
    /\ lifecycle.n_active # N
    /\ lifecycle.per_op_yield_usd # None
    /\ records.last.P = P /\ P # 100000
    /\ records.last.C = C /\ C # 200000000
    /\ records.last.T = T /\ T # 150000000

\* C19: the verdict of the Ki test is STRUCTURAL exactly when the smallest
\* share of seeds that agree with the modal rank is at least 0.60, and
\* PATH-DEPENDENT when it is below; 18 of 30 seeds give STRUCTURAL.
C19_VerdictThreshold ==
    caller.pc = "done" =>
        /\ caller.verdict \in {"STRUCTURAL", "PATH-DEPENDENT"}
        /\ (caller.verdict = "STRUCTURAL")
             <=> (caller.min_consistency * 100 >= 60 * N_SEEDS)

\* C20: the process-wide values a run reads are never written once loaded:
\* no step of a harness changes the controller cadence
\* meshnet_model.PID_CADENCE, which pid_emission reads on every call.
C20_GlobalsNeverWritten == [][PID_CADENCE' = PID_CADENCE]_vars

\* C21: a missing result file never surfaces as an uncaught exception of
\* validate.py: without simulation_results.csv it reports the file and
\* exits with status 1 before any check has run; without
\* sensitivity_results.csv or slashing_sensitivity_results.csv the check
\* concerned reports the file and counts as failed while all ten checks
\* run; and the exit status is 0 only if every check passed.
C21_MissingFiles ==
    caller.pc = "exited" =>
        LET f == caller.files
        IN  /\ caller.uncaught # "None" =>
                  /\ f.sim /\ f.rows # 14600
                  /\ caller.uncaught = "AssertionError"
            /\ ~f.sim =>
                  /\ caller.exit_status = 1
                  /\ "simulation_results.csv" \in caller.stdout
                  /\ results = <<>>
            /\ (f.sim /\ f.rows = 14600) =>
                  /\ Len(results) = Len(CHECKS)
                  /\ ~f.sens =>
                        /\ "sensitivity_results.csv" \in caller.stdout
                        /\ ~results[9].passed
                  /\ ~f.slash =>
                        /\ "slashing_sensitivity_results.csv" \in caller.stdout
                        /\ ~results[10].passed
                  /\ (caller.exit_status = 0)
                       <=> (\A i \in DOMAIN results : results[i].passed)
                  /\ caller.exit_status \in {0, 1}

\* sensitivity_results.csv is missing: check 9 has failed, check 10 has run
\* and passed all the same, and the exit status is 1
C21_Witness ==
    /\ caller.pc = "exited"
    /\ caller.files.sim /\ ~caller.files.sens /\ caller.files.slash
    /\ Len(results) = 10
    /\ ~results[9].passed
    /\ results[10].passed
    /\ caller.exit_status = 1

\* C22: without calibration_params.json the module is imported all the
\* same and every calibrated constant has its default (OU_KAPPA 2.8,
\* OU_SIGMA 0.049, S2R 1.5 / 0.7 / 28.0); with the file, a constant whose
\* section or key is missing has its default and every other constant the
\* value of the file.
C22_CalibrationDefaults ==
    caller.pc = "imported" =>
        LET f == caller.file
            has(sec, key) == /\ f.exists
                             /\ sec \in DOMAIN f.content
                             /\ key \in DOMAIN f.content[sec]
            is(c, sec, key, default) ==
                c = IF has(sec, key) THEN f.content[sec][key] ELSE default
        IN  /\ is(caller.OU_KAPPA, "price", "mesh_ou_kappa", 2800)
            /\ is(caller.OU_SIGMA, "price", "mesh_ou_sigma", 49000)
            /\ is(caller.S2R_L, "s2r", "logistic_L", 1500)
            /\ is(caller.S2R_K, "s2r", "logistic_k", 700)
            /\ is(caller.S2R_T0, "s2r", "logistic_t0", 28000)
            /\ ~f.exists =>
                  /\ caller.OU_KAPPA = 2800 /\ caller.OU_SIGMA = 49000
                  /\ caller.S2R_L = 1500 /\ caller.S2R_K = 700
                  /\ caller.S2R_T0 = 28000

\* a file whose section "price" has only mesh_ou_sigma and which has no
\* section "s2r": sigma from the file, the other constants by default
C22_Witness ==
    /\ caller.pc = "imported"
    /\ caller.file.exists
    /\ DOMAIN caller.file.content = {"price"}
    /\ DOMAIN caller.file.content["price"] = {"mesh_ou_sigma"}
    /\ caller.OU_SIGMA = 61000
    /\ caller.OU_KAPPA = 2800
    /\ caller.S2R_T0 = 28000

\* C24: stake floor.  An operator whose stake is <= 0 after the slashing of
\* the daily update is inactive when the update returns, whatever its
\* yield; so at the end of every day every active operator has a stake
\* above 0 (for the operators kept by profile: a profile with active
\* operators holds a positive stake).
C24_StakeFloor ==
    /\ \A i \in DOMAIN agents : agents[i].active => agents[i].stake > 0
    /\ \A p \in BulkProfiles : bulk[p].n > 0 => bulk[p].stake > 0

\* after the first day of a run with the default slash fractions: an
\* operator slashed to a stake of 0 by a caught fraud and inactive, although
\* the yield of the day, at the mean operating cost, was at or above its
\* exit threshold
C24_Witness ==
    /\ pc = "loop"
    /\ t = 1
    /\ args.slash_downtime = None
    /\ lifecycle.slashed > 0
    /\ \E i \in DOMAIN agents :
         /\ agents[i].stake = 0
         /\ ~agents[i].active
         /\ lifecycle.per_op_yield_usd - OpCost(0, cost_mult)
                >= (agents[i].exit_threshold * OPPORTUNITY_COST) \div 10

\* C25: exit decision rule.  On a day that is not the day of the poach
\* shock, an operator active in the morning whose stake is positive after
\* slashing is inactive in the evening exactly when its daily yield
\* (per-operator yield in dollars minus the operating cost) is strictly
\* below exit_threshold * OPPORTUNITY_COST and its exit draw is below
\* 0.003 if seasons_active >= 2, below 0.008 otherwise.
C25_ExitRule ==
    (/\ caller.pc = "returned"
     /\ ~(/\ SCENARIOS[args.scenario].shock_type = "operator_poach"
          /\ t = SCENARIOS[args.scenario].shock_month * 30))
    => \A i \in DOMAIN caller.before :
         (caller.before[i].active /\ agents[i].stake > 0)
         => LET a == caller.before[i]
                daily_yield == lifecycle.per_op_yield_usd - caller.op_cost
                prob == IF a.seasons_active >= 2 THEN 3 ELSE 8
            IN  ~agents[i].active
                <=> /\ daily_yield < (a.exit_threshold * 5000000) \div 10
                    /\ caller.d.exitU[i] < prob

\* a veteran and its draw of 0.005 on a day of yield below its threshold:
\* it stays; and an operator of one season that leaves on such a draw
C25_Witness ==
    /\ caller.pc = "returned"
    /\ t = 539
    /\ \E i \in DOMAIN caller.before :
         /\ caller.d.exitU[i] = 5
         /\ agents[i].stake > 0
         /\ lifecycle.per_op_yield_usd - caller.op_cost
                < (caller.before[i].exit_threshold * 5000000) \div 10
         /\ \/ caller.before[i].seasons_active = 2 /\ agents[i].active
            \/ caller.before[i].seasons_active = 1 /\ ~agents[i].active

\* C26: every operator has the behavioural parameters of its archetype:
\* (exit_threshold, fraud_prob) is (0.3, 0.0) for high_commitment,
\* (0.8, 0.0) for casual and (1.2, 0.15) for mercenary, for the operators
\* of create_operators and for those appended on an entry; so only
\* mercenary operators have a positive fraud probability.
C26_ArchetypeParameters ==
    LET ok(o) ==
            /\ o.type = "high_commitment"
                  => o.exit_threshold = 3 /\ o.fraud_prob = 0
            /\ o.type = "casual" => o.exit_threshold = 8 /\ o.fraud_prob = 0
            /\ o.type = "mercenary"
                  => o.exit_threshold = 12 /\ o.fraud_prob = 15
            /\ o.fraud_prob > 0 => o.type = "mercenary"
    IN  /\ \A i \in DOMAIN agents : ok(agents[i])
        /\ \A q \in BulkProfiles : bulk[q].n > 0 => ok(q)

C28_TreasuryFloor ==
    pc # "idle" => /\ T >= 19800000
                   /\ T > 0

\* a treasury drawn down to the reserve floor: at or below 20,000,000
\* after a day on which a subsidy was paid
C28_Witness ==
    /\ pc = "loop"
    /\ t > 0
    /\ T <= 20000000
    /\ lifecycle.treasury_subsidy > 0

\* C29, as claimed: on every day of every run a stake goes from positive
\* to 0 only through a caught-fraud slash with slash_fraud = 1.0 (so only
\* on an operator that can commit fraud).
C29_ZeroOnlyByFraudSlash ==
    [][(pc = "loop" /\ pc' = "loop" /\ t' = t + 1)
       => LET sf == IF args.slash_fraud # None THEN args.slash_fraud
                    ELSE 100
          IN  \A i \in DOMAIN agents :
                (agents[i].stake > 0 /\ agents'[i].stake <= 0)
                => sf = 100 /\ agents[i].fraud_prob > 0]_vars

\* C29, amended: a slash with a fraction below 1 leaves a positive stake
\* positive: int(stake * fraction) <= stake - 1.  So on every day of a run
\* a stake goes from positive to 0 only through a slash whose fraction is
\* 1.0: a caught-fraud slash with slash_fraud = 1.0, on an operator that
\* can commit fraud, or a downtime slash with slash_downtime = 1.0, on an
\* operator whose uptime is below 0.90; and in a run with both fractions
\* below 1 every stake stays positive, so the stake floor deactivates
\* nobody.
C29_PartialSlashKeepsStake ==
    [][(pc = "loop" /\ pc' = "loop" /\ t' = t + 1)
       => LET sd == IF args.slash_downtime # None THEN args.slash_downtime
                    ELSE 10
              sf == IF args.slash_fraud # None THEN args.slash_fraud
                    ELSE 100
              stakes == 1 .. 50 \cup {agents'[i].stake : i \in DOMAIN agents'}
          IN  /\ \A stake \in stakes :
                   \A frac \in {2, 5, 10, 20, 30, 40, 60, 80, 99} :
                      stake > 0 => SlashAmount(stake, frac) <= stake - 1
              /\ \A i \in DOMAIN agents :
                   (agents[i].stake > 0 /\ agents'[i].stake <= 0)
                   => /\ lifecycle'.slashed >= agents[i].stake
                      /\ \/ sf = 100 /\ agents[i].fraud_prob > 0
                         \/ sd = 100 /\ agents'[i].uptime < 900
              /\ (sd < 100 /\ sf < 100)
                 => /\ \A i \in DOMAIN agents' : agents'[i].stake > 0
                    /\ \A q \in BulkProfiles :
                         bulk'[q].n > 0 => bulk'[q].stake > 0]_vars

\* a run with fractions 0.30 and 0.60: an operator slashed below the
\* least stake an operator starts with, its stake positive, still active
C29_Witness ==
    /\ pc = "loop"
    /\ args.slash_downtime = 30
    /\ args.slash_fraud = 60
    /\ \E i \in DOMAIN agents :
         /\ agents[i].active
         /\ agents[i].stake \in 1 .. 9999

\* C30: overshoot is bounded.  In a run, which starts from 2,000
\* operators, the number of active operators at the end of a day, and the
\* N recorded for it, never exceeds 12,000 (120% of N_TARGET): operators
\* are appended only on a day whose active count after exits is below
\* 12,000, and no more of them than int(30 * entry_factor).
C30_OvershootBounded ==
    pc # "idle" =>
        /\ ActiveCount(agents, bulk) <= 12000
        /\ N <= 12000
        /\ records.last.N <= 12000
        /\ (lifecycle.new_count # None /\ lifecycle.new_count > 0) =>
              /\ lifecycle.active_count < 12000
              /\ lifecycle.new_count
                    <= (30 * (12000 - (IF lifecycle.active_count > 10000
                                       THEN lifecycle.active_count
                                       ELSE 10000))) \div 2000

\* a day late in the taper: more than 11,850 operators active after exits,
\* a yield above 2 * OPPORTUNITY_COST, and of the 30 operators of base_new
\* only one or two appended
C30_Witness ==
    /\ pc = "loop"
    /\ lifecycle.active_count > 11850
    /\ lifecycle.per_op_yield_usd > 2 * OPPORTUNITY_COST
    /\ lifecycle.base_new = 30
    /\ lifecycle.new_count \in {1, 2}
    /\ ActiveCount(agents, bulk) = lifecycle.active_count + lifecycle.new_count
    /\ N = ActiveCount(agents, bulk)

=============================================================================
